---- MODULE Spec2Model ----
(***************************************************************************)
(* Brent oil change point analysis: the BayesianChangePointAnalyzer and    *)
(* BayesianChangePointModel objects, the posterior summaries they compute  *)
(* and the Flask backend's lazily completed analysis, as state machines.   *)
(*                                                                         *)
(* Conventions.  Python's None is the value None below.  The attributes    *)
(* the code tests against None are log_returns, model and trace (records   *)
(* once set), change_points (a Python list, kept as List(items), so that   *)
(* the empty list differs from None) and events_data (a catalog with at    *)
(* least one event once set).  results is a dict: it is never None and is  *)
(* never tested against None.  A pandas index or a                         *)
(* numpy vector is a function on 0..n-1 (the source's positions); the      *)
(* (chain, draw) axes of a posterior array are sequences, chain c of the   *)
(* source being element c+1.  A date is a day number.  A mean is kept as   *)
(* the pair (sum, count) it is the quotient of; a median or a percentile   *)
(* is kept as an exact numerator over a stated denominator, so that no     *)
(* rounding is introduced by the model.                                    *)
(***************************************************************************)
EXTENDS Integers, Sequences, FiniteSets, TLC

VARIABLES
    log_returns,    \* BayesianChangePointAnalyzer.log_returns
    model,          \* .model of either class
    trace,          \* .trace of either class
    change_points,  \* BayesianChangePointAnalyzer.change_points
    results,        \* BayesianChangePointAnalyzer.results (a dict)
    ret,            \* the last call on the object and how it ended
    fits,           \* pm.sample runs completed on the object
    self,           \* the object under analysis: its class and constructor data
    point,          \* a value of the free variable tau of a built model
    deterministics, \* what the model's graph computes at that point
    pooled,         \* the pooled samples of one change point
    analysis_results, \* the backend's cached results
    pc,             \* where each request of the backend is in its handler
    returned        \* what ensure_analysis_complete returned to each request

objectVars == <<log_returns, model, trace, change_points, results, fits, self>>

evalVars == <<point, deterministics>>

appVars == <<analysis_results, pc, returned>>

vars == <<objectVars, ret, evalVars, pooled, appVars>>

None == <<>>

(***************************************************************************)
(* Bounds of the model.                                                    *)
(***************************************************************************)
\* observations of the price series handed to the analyzer (after dropna)
NData == 4
\* largest n_changepoints a multiple change point model is built with
MaxChangepoints == 2
\* largest number of chains a fit is run with
MaxChains == 2
\* largest number of draws a fit is run with
MaxDraws == 2
\* largest number of sampler iterations (tune + draws) summed over the chains
MaxIterations == 4
\* largest number of completed fits of one object
MaxFits == 1

(***************************************************************************)
(* Helpers on sequences and dicts.                                         *)
(***************************************************************************)
RECURSIVE SumSeq(_)
SumSeq(s) == IF s = <<>> THEN 0 ELSE Head(s) + SumSeq(Tail(s))

RECURSIVE Insert(_, _)
Insert(v, s) ==
    IF s = <<>> THEN <<v>>
    ELSE IF v <= Head(s) THEN <<v>> \o s
    ELSE <<Head(s)>> \o Insert(v, Tail(s))

\* np.sort / pt.sort: ascending
RECURSIVE Sort(_)
Sort(s) == IF s = <<>> THEN <<>> ELSE Insert(Head(s), Sort(Tail(s)))

\* d[k] = v on a Python dict
Put(d, k, v) == (k :> v) @@ d

(***************************************************************************)
(* The series.  A pandas Series is handed over as its rows, in order:      *)
(* the timestamp t, the value v and whether the value is missing (na).     *)
(* Once stored it is the pair of its index and its values, both functions  *)
(* of the position.  Prices are positive.  data is the price series of     *)
(* the analyzer; log_returns, once prepared, has one element less, the     *)
(* first date being dropped by diff().dropna().                            *)
(***************************************************************************)
IndexLen(idx) == Cardinality(DOMAIN idx)

\* the rows of a stored series, none of them missing
Rows(series) ==
    [k \in 1..IndexLen(series.index) |->
        [t |-> series.index[k - 1], v |-> series.values[k - 1], na |-> FALSE]]

SeriesOf(rows) ==
    [index  |-> [i \in 0..(Len(rows) - 1) |-> rows[i + 1].t],
     values |-> [i \in 0..(Len(rows) - 1) |-> rows[i + 1].v]]

\* Series.dropna(): the rows that hold a value, in their order
RECURSIVE DropNa(_)
DropNa(rows) ==
    IF rows = <<>> THEN <<>>
    ELSE IF Head(rows).na THEN DropNa(Tail(rows))
    ELSE <<Head(rows)>> \o DropNa(Tail(rows))

\* a difference taken forwards: row k holds log(v[k+1]) - log(v[k]) and the
\* last row is missing
LogDiff_forward(rows) ==
    [k \in 1..Len(rows) |->
        [t  |-> rows[k].t,
         v  |-> IF k = Len(rows) THEN [log_of |-> rows[k].v, minus_log_of |-> rows[k].v]
                                 ELSE [log_of |-> rows[k + 1].v, minus_log_of |-> rows[k].v],
         na |-> k = Len(rows)]]

\* np.log(data).diff(): row k keeps its timestamp and holds
\* log(v[k]) - log(v[k-1]), kept as the pair of the two prices; the first
\* row has no predecessor and is missing
LogDiff(rows) ==
    [k \in 1..Len(rows) |->
        [t  |-> rows[k].t,
         v  |-> IF k = 1 THEN [log_of |-> rows[k].v, minus_log_of |-> rows[k].v]
                         ELSE [log_of |-> rows[k].v, minus_log_of |-> rows[k - 1].v],
         na |-> k = 1]]

\* the index of a weekly series of n observations
SeriesIndex(n) == [i \in 0..(n - 1) |-> 1000 + 7 * i]

DataIndex == SeriesIndex(NData)

\* the prices, position by position
DataValues == [i \in 0..(NData - 1) |-> 50 + 10 * i]

\* the rows of the price series handed to the objects
DataRows == Rows([index |-> DataIndex, values |-> DataValues])

\* the events catalog handed to the analyzer, in the catalog's order
EventsData ==
    <<[Date |-> 1000, Name |-> "event_a", Category |-> "c1", Expected_Impact |-> "up"],
      [Date |-> 1011, Name |-> "event_b", Category |-> "c2", Expected_Impact |-> "down"],
      [Date |-> 1004, Name |-> "event_c", Category |-> "c1", Expected_Impact |-> "up"],
      [Date |-> 1010, Name |-> "event_d", Category |-> "c2", Expected_Impact |-> "up"],
      [Date |-> 1060, Name |-> "event_e", Category |-> "c1", Expected_Impact |-> "down"]>>

LogReturnsIndex == [j \in 0..(NData - 2) |-> DataIndex[j + 1]]

\* "Select target data" of both builders: the series and the dates a model
\* is built on, given the analyzer's data and its log_returns at the time
\* of the call
SelectTarget(target_series, lr, data) ==
    IF target_series = "returns" /\ lr # None
    THEN [y |-> "log_returns", dates |-> lr.index]
    ELSE [y |-> "data", dates |-> data.index]

(***************************************************************************)
(* The model objects.  A pm.Model is kept as what it was built from: its   *)
(* kind, the number of change points, the observed series and its length.  *)
(* The support of every change point location is lower..upper.             *)
(***************************************************************************)
TauLower == 1

\* a prior that lets a change point fall on the last observation
TauUpper_last(n_obs) == n_obs - 1

TauUpper(n_obs) == n_obs - 2

TauSupport(n_obs) == TauLower..TauUpper(n_obs)

\* one draw of tau_raw: a vector of n_changepoints locations, each from the
\* DiscreteUniform prior's support, in the order the sampler holds them
RawDraws(n_changepoints, n_obs) == [1..n_changepoints -> TauSupport(n_obs)]

\* a Deterministic 'tau' that records the draw as it is
SortedTau_asdrawn(tau_raw) == tau_raw

\* tau = pm.Deterministic('tau', pt.sort(tau_raw))
SortedTau(tau_raw) == Sort(tau_raw)

(***************************************************************************)
(* What a model's graph computes from a value of its free variable tau:    *)
(* the regime, or the parameters, of every observation index.              *)
(***************************************************************************)
Indicator(b) == IF b THEN 1 ELSE 0

\* a regime assignment that counts a change point at the index itself
RegimeMultiple_inclusive(tau, n_changepoints, n_obs) ==
    [idx \in 0..(n_obs - 1) |->
        SumSeq([i \in 1..n_changepoints |-> Indicator(tau[i] <= idx)])]

\* regime = pt.sum([tau[i] < idx for i in range(n_changepoints)], axis=0)
\* with idx = np.arange(n_obs)
RegimeMultiple(tau, n_changepoints, n_obs) ==
    [idx \in 0..(n_obs - 1) |->
        SumSeq([i \in 1..n_changepoints |-> Indicator(tau[i] < idx)])]

\* mu = pt.switch(tau >= idx, mu_1, mu_2), the parameters being named
\* mu_before and mu_after; lambda is selected by the same condition
SwitchSingle(tau, n_obs) ==
    [idx \in 0..(n_obs - 1) |-> IF tau >= idx THEN "before" ELSE "after"]

\* the loop of build_model at one time t, from change point i on:
\* regime = switch(t >= tau_sorted[i], i + 1, regime)
RECURSIVE RegimeSwitch(_, _, _, _)
RegimeSwitch(t, tau_sorted, i, regime) ==
    IF i >= Len(tau_sorted) THEN regime
    ELSE RegimeSwitch(t, tau_sorted, i + 1,
                      IF t >= tau_sorted[i + 1] THEN i + 1 ELSE regime)

RegimeModel(tau_sorted, n_obs) ==
    [t \in 0..(n_obs - 1) |-> RegimeSwitch(t, tau_sorted, 0, 0)]

\* the values of a model's graph at a point of its free variable
EvalModel(m, tau_value) ==
    CASE m.kind = "single_changepoint" ->
            [tau |-> tau_value[1],
             mu |-> SwitchSingle(tau_value[1], m.n_obs),
             lambda |-> SwitchSingle(tau_value[1], m.n_obs)]
      [] m.kind = "multiple_changepoint" ->
            [tau_raw |-> tau_value,
             tau |-> SortedTau(tau_value),
             regime |-> RegimeMultiple(SortedTau(tau_value), m.n_changepoints, m.n_obs)]
      [] OTHER ->
            [tau |-> tau_value,
             tau_sorted |-> Sort(tau_value),
             regime |-> RegimeModel(Sort(tau_value), m.n_obs)]

(***************************************************************************)
(* pm.sample.  Every chain runs tune + draws iterations; an iteration      *)
(* leaves one value of every free variable on the chain.  history[c][t] is *)
(* the vector of change point locations chain c holds after iteration t.   *)
(* Every point of the prior's support has positive posterior probability,  *)
(* so every history over the support is a possible run of the sampler.     *)
(***************************************************************************)
Histories(n_changepoints, n_obs, chains, iterations) ==
    [1..chains -> [1..iterations -> RawDraws(n_changepoints, n_obs)]]

\* the posterior group holds the last `draws` iterations of every chain:
\* the tuning iterations are discarded (discard_tuned_samples defaults to True)
\* a sampler that keeps its tuning draws in the posterior
DiscardTuning_keep(history, tune) == history

DiscardTuning(history, tune) ==
    [c \in 1..Len(history) |-> SubSeq(history[c], tune + 1, Len(history[c]))]

\* the InferenceData of the analyzer's single change point model: 'tau' is a
\* scalar per (chain, draw)
SingleTrace(kept, observed) ==
    [posterior |->
        [tau |-> [c \in 1..Len(kept) |-> [d \in 1..Len(kept[c]) |-> kept[c][d][1]]]],
     observed_data |-> observed]

\* the InferenceData of the analyzer's multiple change point model: 'tau_raw'
\* as sampled and the Deterministic 'tau', its sort, per (chain, draw)
MultipleTrace(kept, observed) ==
    [posterior |->
        [tau_raw |-> kept,
         tau |-> [c \in 1..Len(kept) |->
                    [d \in 1..Len(kept[c]) |-> SortedTau(kept[c][d])]]],
     observed_data |-> observed]

\* the InferenceData of BayesianChangePointModel: 'tau' is the free variable
\* itself; tau_sorted is no named variable of the model and is not recorded
ModelTrace(kept, observed) == [posterior |-> [tau |-> kept], observed_data |-> observed]

\* the InferenceData pm.sample returns: the posterior group and the
\* observed_data group, the series the model was built on
PmSample(m, history, tune) ==
    LET kept == DiscardTuning(history, tune)
        observed == [y |-> m.observed, n_obs |-> m.n_obs]
    IN  CASE m.kind = "single_changepoint"   -> SingleTrace(kept, observed)
          [] m.kind = "multiple_changepoint" -> MultipleTrace(kept, observed)
          [] OTHER                           -> ModelTrace(kept, observed)

(***************************************************************************)
(* Pooling the chains.                                                     *)
(***************************************************************************)
\* ndarray.flatten() of a (chain, draw) array: row-major, chain after chain
RECURSIVE Flatten(_)
Flatten(a) == IF a = <<>> THEN <<>> ELSE Head(a) \o Flatten(Tail(a))

\* tau_samples[:, :, i] for i in range(n_cp)
Column(tau_samples, i) ==
    [c \in 1..Len(tau_samples) |->
        [d \in 1..Len(tau_samples[c]) |-> tau_samples[c][d][i + 1]]]

\* tau_samples.reshape(-1, max_changepoints)[:, i]
ReshapedColumn(tau_samples, i) ==
    LET tau_flat == Flatten(tau_samples)
    IN  [r \in 1..Len(tau_flat) |-> tau_flat[r][i + 1]]

(***************************************************************************)
(* Statistics of a pooled sample.                                          *)
(***************************************************************************)
\* np.mean: the quotient sum / count
Mean(a) == [sum |-> SumSeq(a), count |-> Len(a)]

\* twice np.median: the middle element, or the mean of the two middle ones
MedianX2(a) ==
    LET s == Sort(a)
        n == Len(s)
    IN  IF n % 2 = 1 THEN 2 * s[(n + 1) \div 2]
        ELSE s[n \div 2] + s[n \div 2 + 1]

\* a conversion that rounds up instead of truncating
IntOf_ceiling(num, den) == (num + den - 1) \div den

\* int(x) of a non-negative quotient: truncation
IntOf(num, den) == num \div den

\* percent of the samples an az.hdi interval holds (rcParams stats.hdi_prob)
HdiProbPercent == 94

\* az.hdi: the narrowest interval holding floor(hdi_prob * n) + 1 consecutive
\* sorted samples, the first such interval among equally narrow ones
Hdi(a) ==
    LET s == Sort(a)
        n == Len(s)
        interval_idx_inc == (HdiProbPercent * n) \div 100
        n_intervals == n - interval_idx_inc
        width(j) == s[j + interval_idx_inc] - s[j]
        min_idx == CHOOSE j \in 1..n_intervals :
                      /\ \A k \in 1..n_intervals : width(j) <= width(k)
                      /\ \A k \in 1..(j - 1) : width(k) > width(j)
    IN  <<s[min_idx], s[min_idx + interval_idx_inc]>>

\* np.percentile (linear interpolation) at the fraction q_num / q_den of the
\* way through the sorted samples; the result is num / den
Percentile(a, q_num, q_den) ==
    LET s == Sort(a)
        n == Len(s)
        pos_num == q_num * (n - 1)
        lo == pos_num \div q_den
        rem == pos_num % q_den
    IN  [num |-> s[lo + 1] * q_den
                 + (IF rem = 0 THEN 0 ELSE rem * (s[lo + 2] - s[lo + 1])),
         den |-> q_den]

(***************************************************************************)
(* BayesianChangePointAnalyzer._extract_results: the change point list.    *)
(* tau_std, a square root, is not kept.                                    *)
(***************************************************************************)
ChangePointOf(tau_i, dates) ==
    [tau_mean      |-> Mean(tau_i),
     tau_median_x2 |-> MedianX2(tau_i),
     tau_hdi       |-> Hdi(tau_i),
     date_estimate |-> dates[IntOf(MedianX2(tau_i), 2)]]

\* az.summary(trace) as BayesianChangePointModel keeps it: the dimensions
\* of the posterior it summarises
AzSummary(tr) ==
    [chains |-> Len(tr.posterior.tau), draws |-> Len(tr.posterior.tau[1])]

(***************************************************************************)
(* The convergence diagnostics of _extract_results.  They are read from    *)
(* the r_hat column of the table az.summary returns, one value per scalar  *)
(* parameter of the model, in hundredths, or NaN where the statistic is    *)
(* undefined.  ess_bulk_min and ess_tail_min are not kept.                 *)
(***************************************************************************)
NaN == [nan |-> TRUE, x100 |-> 0]

RHat(x100) == [nan |-> FALSE, x100 |-> x100]

RHatValues == {NaN, RHat(100), RHat(120)}

\* 'converged': (summary['r_hat'] < 1.1).all()
ConvergedBelow == 110

\* a float comparison: False on NaN
LessThan(a, bound_x100) == ~a.nan /\ a.x100 < bound_x100

\* Series.max(): the NaN values are skipped, and NaN when nothing is left
SeriesMax(column) ==
    LET present == {column[i].x100 : i \in {j \in DOMAIN column : ~column[j].nan}}
    IN  IF present = {} THEN NaN
        ELSE RHat(CHOOSE x \in present : \A y \in present : y <= x)

Diagnostics(r_hat) ==
    [r_hat_max |-> SeriesMax(r_hat),
     converged |-> \A i \in DOMAIN r_hat : LessThan(r_hat[i], ConvergedBelow)]

\* the rows of the summary table: tau, mu_before, mu_after, lambda_before
\* and lambda_after of the single change point model; tau_raw[k], tau[k],
\* mu[r] and lambda[r] of the multiple change point model
SummaryRows(tr) ==
    IF "tau_raw" \in DOMAIN tr.posterior
    THEN 4 * Len(tr.posterior.tau[1][1]) + 2
    ELSE 5

\* R-hat is computed from at least 2 chains of at least 4 draws and is NaN
\* on a smaller posterior
RHatMinChains == 2

RHatMinDraws == 4

\* the r_hat columns az.summary may report for a trace
AzRHat(tr) ==
    IF \/ Len(tr.posterior.tau) < RHatMinChains
       \/ Len(tr.posterior.tau[1]) < RHatMinDraws
    THEN {[i \in 1..SummaryRows(tr) |-> NaN]}
    ELSE [1..SummaryRows(tr) -> RHatValues]

\* "Model diagnostics" of _extract_results: the summary table and the
\* figures read from it
ExtractDiagnostics(tr, r_hat, res) ==
    Put(Put(res, "summary", [chains |-> Len(tr.posterior.tau),
                             draws  |-> Len(tr.posterior.tau[1]),
                             r_hat  |-> r_hat]),
        "diagnostics", Diagnostics(r_hat))

ExtractChangePoints(tr, res) ==
    IF res["model_type"] = "single_changepoint"
    THEN <<ChangePointOf(Flatten(tr.posterior.tau), res["dates"])>>
    ELSE [k \in 1..res["n_changepoints"] |->
            ChangePointOf(Flatten(Column(tr.posterior.tau, k - 1)), res["dates"])]

(***************************************************************************)
(* BayesianChangePointModel.get_change_points: one row per change point.   *)
(* credible_interval is ci_num / CredibleDen; std is not kept.             *)
(***************************************************************************)
\* credible_interval ranges over the multiples of 1 / CredibleDen in (0, 1)
CredibleDen == 4

\* a row whose bounds are the percentiles at 100 * alpha and 100 * (1 - alpha)
ChangePointRow_onesided(tau_i, i, dates, ci_num) ==
    LET alpha_num == CredibleDen - ci_num
        lower == Percentile(tau_i, alpha_num, CredibleDen)
        upper == Percentile(tau_i, CredibleDen - alpha_num, CredibleDen)
        mean == Mean(tau_i)
    IN  [changepoint_id     |-> i + 1,
         mean_position      |-> mean,
         mean_date          |-> dates[IntOf(mean.sum, mean.count)],
         median_position_x2 |-> MedianX2(tau_i),
         median_date        |-> dates[IntOf(MedianX2(tau_i), 2)],
         ci_lower           |-> lower,
         ci_upper           |-> upper,
         ci_lower_date      |-> dates[IntOf(lower.num, lower.den)],
         ci_upper_date      |-> dates[IntOf(upper.num, upper.den)]]

ChangePointRow(tau_i, i, dates, ci_num) ==
    LET \* alpha = 1 - credible_interval = alpha_num / CredibleDen
        alpha_num == CredibleDen - ci_num
        \* the percentiles 100 * alpha/2 and 100 * (1 - alpha/2)
        lower == Percentile(tau_i, alpha_num, 2 * CredibleDen)
        upper == Percentile(tau_i, 2 * CredibleDen - alpha_num, 2 * CredibleDen)
        mean == Mean(tau_i)
    IN  [changepoint_id     |-> i + 1,
         mean_position      |-> mean,
         mean_date          |-> dates[IntOf(mean.sum, mean.count)],
         median_position_x2 |-> MedianX2(tau_i),
         median_date        |-> dates[IntOf(MedianX2(tau_i), 2)],
         ci_lower           |-> lower,
         ci_upper           |-> upper,
         ci_lower_date      |-> dates[IntOf(lower.num, lower.den)],
         ci_upper_date      |-> dates[IntOf(upper.num, upper.den)]]

ChangePointRows(tr, max_changepoints, dates, ci_num) ==
    [k \in 1..max_changepoints |->
        ChangePointRow(ReshapedColumn(tr.posterior.tau, k - 1), k - 1, dates, ci_num)]

(***************************************************************************)
(* The sampler configurations a fit is run with.                           *)
(***************************************************************************)
SamplerArgs(draws, tune, chains) == [draws |-> draws, tune |-> tune, chains |-> chains]

SamplerConfigs ==
    {cfg \in [chains : 1..MaxChains, draws : 1..MaxDraws, tune : 0..MaxIterations] :
        cfg.chains * (cfg.draws + cfg.tune) <= MaxIterations}

\* return values, by Python type
DataFrame(rows) == [type |-> "DataFrame", rows |-> rows]

List(items) == [type |-> "list", items |-> items]

EmptyDict == [type |-> "dict", items |-> <<>>]

\* a call that returned, and a call that raised; neither class issues a
\* warning, through warnings or through logging, in any of its methods
Returned(op, args, value) ==
    [op |-> op, args |-> args, raised |-> "None", value |-> value, warnings |-> <<>>]

Raised(op, args, error) ==
    [op |-> op, args |-> args, raised |-> error, value |-> None, warnings |-> <<>>]

NoArgs == <<>>

(***************************************************************************)
(* BayesianChangePointAnalyzer                                             *)
(***************************************************************************)
IsAnalyzer == self.class = "BayesianChangePointAnalyzer"

\* the attributes __init__ sets from its arguments: data.dropna().copy()
\* and events_data
AnalyzerOn(rows, events_data) ==
    [class |-> "BayesianChangePointAnalyzer",
     data |-> SeriesOf(DropNa(rows)),
     events_data |-> events_data]

Analyzer_init(rows, events_data) ==
    /\ self = AnalyzerOn(rows, events_data)
    /\ fits = 0
    /\ log_returns = None
    /\ model = None
    /\ trace = None
    /\ change_points = None
    /\ results = <<>>
    /\ ret = Returned("__init__", [data |-> rows, events_data |-> events_data], None)
    /\ point = None
    /\ deterministics = None
    /\ pooled = None
    /\ analysis_results = None
    /\ pc = None
    /\ returned = None

\* __init__ on data whose index is no DatetimeIndex: ValueError, and no
\* object
Analyzer_init_raises ==
    /\ self = [class |-> "None"]
    /\ fits = 0
    /\ log_returns = None
    /\ model = None
    /\ trace = None
    /\ change_points = None
    /\ results = <<>>
    /\ ret = Raised("__init__", NoArgs, "ValueError")
    /\ point = None
    /\ deterministics = None
    /\ pooled = None
    /\ analysis_results = None
    /\ pc = None
    /\ returned = None

\* index.min() and index.max(); NaT, kept as None, on an empty index
IndexMin(idx) ==
    IF DOMAIN idx = {} THEN None
    ELSE CHOOSE d \in {idx[i] : i \in DOMAIN idx} : \A i \in DOMAIN idx : d <= idx[i]

IndexMax(idx) ==
    IF DOMAIN idx = {} THEN None
    ELSE CHOOSE d \in {idx[i] : i \in DOMAIN idx} : \A i \in DOMAIN idx : d >= idx[i]

\* log_returns and results as prepare_data leaves them:
\* log_returns = np.log(self.data).diff().dropna()
PreparedLogReturns(data, lr, use_log_returns) ==
    IF use_log_returns THEN SeriesOf(DropNa(LogDiff(Rows(data)))) ELSE lr

PreparedResults(res, data, lr, use_log_returns) ==
    LET summarised == Put(res, "data_summary",
                          [start_date |-> IndexMin(data.index),
                           end_date |-> IndexMax(data.index),
                           n_observations |-> IndexLen(data.index)])
    IN  IF use_log_returns /\ lr # None
        THEN Put(summarised, "returns_summary",
                 [mean_return |-> [sum_of |-> lr.values,
                                   count  |-> IndexLen(lr.index)]])
        ELSE summarised

prepare_data(use_log_returns) ==
    /\ IsAnalyzer
    /\ LET lr == PreparedLogReturns(self.data, log_returns, use_log_returns)
       IN  /\ log_returns' = lr
           /\ results' = PreparedResults(results, self.data, lr, use_log_returns)
    /\ ret' = Returned("prepare_data", [use_log_returns |-> use_log_returns], None)
    /\ UNCHANGED <<model, trace, change_points, fits, self, evalVars, pooled>>

build_single_changepoint_model(target_series) ==
    /\ IsAnalyzer
    /\ LET target == SelectTarget(target_series, log_returns, self.data)
       IN  /\ model' = [kind |-> "single_changepoint",
                        n_changepoints |-> 1,
                        observed |-> target.y,
                        n_obs |-> IndexLen(target.dates)]
           /\ results' = Put(Put(Put(results,
                              "model_type", "single_changepoint"),
                              "target_series", target_series),
                              "dates", target.dates)
    /\ ret' = Returned("build_single_changepoint_model",
                       [target_series |-> target_series], model')
    /\ UNCHANGED <<log_returns, trace, change_points, fits, self, evalVars, pooled>>

\* self.model and self.results as build_multiple_changepoint_model leaves
\* them
MultipleModel(n_changepoints, target) ==
    [kind |-> "multiple_changepoint",
     n_changepoints |-> n_changepoints,
     observed |-> target.y,
     n_obs |-> IndexLen(target.dates)]

MultipleResults(res, n_changepoints, target_series, target) ==
    Put(Put(Put(Put(res,
        "model_type", "multiple_changepoint"),
        "n_changepoints", n_changepoints),
        "target_series", target_series),
        "dates", target.dates)

build_multiple_changepoint_model(n_changepoints, target_series) ==
    /\ IsAnalyzer
    /\ LET target == SelectTarget(target_series, log_returns, self.data)
       IN  /\ model' = MultipleModel(n_changepoints, target)
           /\ results' = MultipleResults(results, n_changepoints,
                                         target_series, target)
    /\ ret' = Returned("build_multiple_changepoint_model",
                       [n_changepoints |-> n_changepoints,
                        target_series |-> target_series], model')
    /\ UNCHANGED <<log_returns, trace, change_points, fits, self, evalVars, pooled>>

\* a fit_model that clears the previous results before it looks for a model
fit_model_reset(draws, tune, chains) ==
    /\ IsAnalyzer
    /\ UNCHANGED <<evalVars, pooled>>
    /\ IF model = None
       THEN /\ ret' = Raised("fit_model", SamplerArgs(draws, tune, chains), "ValueError")
            /\ trace' = None
            /\ change_points' = None
            /\ results' = <<>>
            /\ UNCHANGED <<log_returns, model, fits, self>>
       ELSE \E history \in Histories(model.n_changepoints, model.n_obs,
                                     chains, tune + draws) :
                LET sampled == PmSample(model, history, tune)
                IN  \E r_hat \in AzRHat(sampled) :
                    /\ fits' = fits + 1
                    /\ trace' = sampled
                    /\ results' = ExtractDiagnostics(sampled, r_hat, results)
                    /\ change_points' = List(ExtractChangePoints(sampled, results))
                    /\ ret' = Returned("fit_model", SamplerArgs(draws, tune, chains), None)
                    /\ UNCHANGED <<log_returns, model, self>>

fit_model(draws, tune, chains) ==
    /\ IsAnalyzer
    /\ UNCHANGED <<evalVars, pooled>>
    /\ IF model = None
       THEN /\ ret' = Raised("fit_model", SamplerArgs(draws, tune, chains), "ValueError")
            /\ UNCHANGED <<log_returns, model, trace, change_points, results, fits, self>>
       ELSE \E history \in Histories(model.n_changepoints, model.n_obs,
                                     chains, tune + draws) :
                LET sampled == PmSample(model, history, tune)
                IN  \E r_hat \in AzRHat(sampled) :
                    /\ fits' = fits + 1
                    /\ trace' = sampled
                    /\ results' = ExtractDiagnostics(sampled, r_hat, results)
                    /\ change_points' = List(ExtractChangePoints(sampled, results))
                    /\ ret' = Returned("fit_model", SamplerArgs(draws, tune, chains), None)
                    /\ UNCHANGED <<log_returns, model, self>>

(***************************************************************************)
(* associate_with_events and quantify_impact                               *)
(***************************************************************************)
Abs(x) == IF x < 0 THEN -x ELSE x

\* an association that leaves out the events at exactly tolerance_days
RECURSIVE NearbyEvents_strict(_, _, _)
NearbyEvents_strict(events, cp_date, tolerance_days) ==
    IF events = <<>> THEN <<>>
    ELSE LET event == Head(events)
             rest == NearbyEvents_strict(Tail(events), cp_date, tolerance_days)
         IN  IF Abs(event.Date - cp_date) < tolerance_days
             THEN <<[event_name |-> event.Name,
                     event_date |-> event.Date,
                     days_difference |-> event.Date - cp_date,
                     category |-> event.Category,
                     expected_impact |-> event.Expected_Impact]>> \o rest
             ELSE rest

\* the events within tolerance of cp_date, in catalog order
RECURSIVE NearbyEvents(_, _, _)
NearbyEvents(events, cp_date, tolerance_days) ==
    IF events = <<>> THEN <<>>
    ELSE LET event == Head(events)
             rest == NearbyEvents(Tail(events), cp_date, tolerance_days)
         IN  IF Abs(event.Date - cp_date) <= tolerance_days
             THEN <<[event_name |-> event.Name,
                     event_date |-> event.Date,
                     days_difference |-> event.Date - cp_date,
                     category |-> event.Category,
                     expected_impact |-> event.Expected_Impact]>> \o rest
             ELSE rest

\* list.sort(key=abs(days_difference)): stable, ascending
RECURSIVE InsertByProximity(_, _)
InsertByProximity(e, s) ==
    IF s = <<>> THEN <<e>>
    ELSE IF Abs(e.days_difference) < Abs(Head(s).days_difference) THEN <<e>> \o s
    ELSE <<Head(s)>> \o InsertByProximity(e, Tail(s))

RECURSIVE SortByProximity(_)
SortByProximity(s) ==
    IF s = <<>> THEN <<>>
    ELSE InsertByProximity(s[Len(s)], SortByProximity(SubSeq(s, 1, Len(s) - 1)))

\* events kept per change point: nearby_events[:3]
TopEvents == 3

Association(cp, i, events, tolerance_days) ==
    LET nearby_events == SortByProximity(
                            NearbyEvents(events, cp.date_estimate, tolerance_days))
    IN  [changepoint_id    |-> i + 1,
         changepoint_date  |-> cp.date_estimate,
         tau_median_x2     |-> cp.tau_median_x2,
         associated_events |-> List(SubSeq(nearby_events, 1,
                                           IF Len(nearby_events) < TopEvents
                                           THEN Len(nearby_events) ELSE TopEvents)),
         n_nearby_events   |-> Len(nearby_events)]

\* one row of the summary DataFrame
AssociationSummary(assoc) ==
    IF assoc.associated_events.items # <<>>
    THEN [change_point |-> assoc.changepoint_id,
          closest_event |-> assoc.associated_events.items[1].event_name,
          days_difference |-> <<assoc.associated_events.items[1].days_difference>>]
    ELSE [change_point |-> assoc.changepoint_id,
          closest_event |-> "No nearby events",
          days_difference |-> <<>>]

\* an association that leaves out the change points without a nearby event
Associations_nonempty(cps, events, tolerance_days) ==
    SelectSeq([k \in 1..Len(cps) |-> Association(cps[k], k - 1, events, tolerance_days)],
              LAMBDA assoc : assoc.n_nearby_events > 0)

\* one association per change point, in the order of self.change_points
Associations(cps, events, tolerance_days) ==
    [k \in 1..Len(cps) |-> Association(cps[k], k - 1, events, tolerance_days)]

\* an association that starts results afresh with its own entry
associate_with_events_afresh(tolerance_days) ==
    /\ IsAnalyzer
    /\ IF change_points = None \/ self.events_data = None
       THEN /\ ret' = Returned("associate_with_events",
                               [tolerance_days |-> tolerance_days], DataFrame(<<>>))
            /\ UNCHANGED results
       ELSE LET associations == Associations(change_points.items, self.events_data,
                                             tolerance_days)
            IN  /\ results' = Put(<<>>, "event_associations", associations)
                /\ ret' = Returned("associate_with_events",
                                   [tolerance_days |-> tolerance_days],
                                   DataFrame([k \in 1..Len(associations) |->
                                                AssociationSummary(associations[k])]))
    /\ UNCHANGED <<log_returns, model, trace, change_points, fits, self, evalVars, pooled>>

associate_with_events(tolerance_days) ==
    /\ IsAnalyzer
    /\ IF change_points = None \/ self.events_data = None
       THEN /\ ret' = Returned("associate_with_events",
                               [tolerance_days |-> tolerance_days], DataFrame(<<>>))
            /\ UNCHANGED results
       ELSE LET associations == Associations(change_points.items, self.events_data,
                                             tolerance_days)
            IN  /\ results' = Put(results, "event_associations", associations)
                /\ ret' = Returned("associate_with_events",
                                   [tolerance_days |-> tolerance_days],
                                   DataFrame([k \in 1..Len(associations) |->
                                                AssociationSummary(associations[k])]))
    /\ UNCHANGED <<log_returns, model, trace, change_points, fits, self, evalVars, pooled>>

\* the positions of data whose date lies in the window
BeforeWindow(data, cp_date, window_days) ==
    {i \in DOMAIN data.index :
        data.index[i] >= cp_date - window_days /\ data.index[i] < cp_date}

AfterWindow(data, cp_date, window_days) ==
    {i \in DOMAIN data.index :
        data.index[i] > cp_date /\ data.index[i] <= cp_date + window_days}

RECURSIVE SumOver(_, _)
SumOver(data, positions) ==
    IF positions = {} THEN 0
    ELSE LET i == CHOOSE j \in positions : TRUE
         IN  data.values[i] + SumOver(data, positions \ {i})

\* an impact whose percent change is taken relative to the mean after
Impact_of_after(data, cp, i, window_days) ==
    LET before_data == BeforeWindow(data, cp.date_estimate, window_days)
        after_data == AfterWindow(data, cp.date_estimate, window_days)
        n_before == Cardinality(before_data)
        n_after == Cardinality(after_data)
        sum_before == SumOver(data, before_data)
        sum_after == SumOver(data, after_data)
    IN  [changepoint_id    |-> i + 1,
         changepoint_date  |-> cp.date_estimate,
         mean_price_before |-> [sum |-> sum_before, count |-> n_before],
         mean_price_after  |-> [sum |-> sum_after, count |-> n_after],
         price_change      |-> [num |-> sum_after * n_before - sum_before * n_after,
                                den |-> n_after * n_before],
         percent_change    |-> [num |-> 100 * (sum_after * n_before - sum_before * n_after),
                                den |-> n_before * sum_after],
         n_obs_before      |-> n_before,
         n_obs_after       |-> n_after]

\* the impact record of a change point; the standard deviations, square
\* roots, are not kept
Impact(data, cp, i, window_days) ==
    LET before_data == BeforeWindow(data, cp.date_estimate, window_days)
        after_data == AfterWindow(data, cp.date_estimate, window_days)
        n_before == Cardinality(before_data)
        n_after == Cardinality(after_data)
        sum_before == SumOver(data, before_data)
        sum_after == SumOver(data, after_data)
    IN  [changepoint_id    |-> i + 1,
         changepoint_date  |-> cp.date_estimate,
         mean_price_before |-> [sum |-> sum_before, count |-> n_before],
         mean_price_after  |-> [sum |-> sum_after, count |-> n_after],
         price_change      |-> [num |-> sum_after * n_before - sum_before * n_after,
                                den |-> n_after * n_before],
         percent_change    |-> [num |-> 100 * (sum_after * n_before - sum_before * n_after),
                                den |-> n_after * sum_before],
         n_obs_before      |-> n_before,
         n_obs_after       |-> n_after]

RECURSIVE ImpactResults(_, _, _, _)
ImpactResults(data, cps, i, window_days) ==
    IF i >= Len(cps) THEN <<>>
    ELSE LET cp == cps[i + 1]
         IN  (IF /\ BeforeWindow(data, cp.date_estimate, window_days) # {}
                 /\ AfterWindow(data, cp.date_estimate, window_days) # {}
              THEN <<Impact(data, cp, i, window_days)>>
              ELSE <<>>) \o ImpactResults(data, cps, i + 1, window_days)

quantify_impact(window_days) ==
    /\ IsAnalyzer
    /\ IF change_points = None
       THEN /\ ret' = Returned("quantify_impact",
                               [window_days |-> window_days], EmptyDict)
            /\ UNCHANGED results
       ELSE LET impact_results == ImpactResults(self.data, change_points.items, 0, window_days)
            IN  /\ results' = Put(results, "impact_analysis", impact_results)
                /\ ret' = Returned("quantify_impact",
                                   [window_days |-> window_days], List(impact_results))
    /\ UNCHANGED <<log_returns, model, trace, change_points, fits, self, evalVars, pooled>>

(***************************************************************************)
(* utils/analysis_utils.py.  Its functions are module-level; the arguments *)
(* they are called on are kept in self: the price series, the change point *)
(* table (the rows of get_change_points) and the events table.             *)
(***************************************************************************)
IsUtils == self.class = "analysis_utils"

UtilsOn(rows, changepoints_df, events_df) ==
    [class |-> "analysis_utils",
     data |-> SeriesOf(rows),
     changepoints_df |-> changepoints_df,
     events_df |-> events_df]

Utils_init(rows, changepoints_df, events_df) ==
    /\ self = UtilsOn(rows, changepoints_df, events_df)
    /\ fits = 0
    /\ log_returns = None
    /\ model = None
    /\ trace = None
    /\ change_points = None
    /\ results = <<>>
    /\ ret = Returned("import", NoArgs, None)
    /\ point = None
    /\ deterministics = None
    /\ pooled = None
    /\ analysis_results = None
    /\ pc = None
    /\ returned = None

\* the events within tolerance of cp_date, in the table's order
RECURSIVE UtilsNearbyEvents(_, _, _)
UtilsNearbyEvents(events, cp_date, tolerance_days) ==
    IF events = <<>> THEN <<>>
    ELSE LET event == Head(events)
             rest == UtilsNearbyEvents(Tail(events), cp_date, tolerance_days)
             days_diff == Abs(cp_date - event.date)
         IN  IF days_diff <= tolerance_days
             THEN <<[event_id |-> event.event_id,
                     event_name |-> event.event_name,
                     event_date |-> event.date,
                     category |-> event.category,
                     expected_impact |-> event.expected_impact,
                     days_difference |-> days_diff,
                     direction |-> IF event.date < cp_date
                                   THEN "before" ELSE "after"]>> \o rest
             ELSE rest

\* the association of one row of changepoints_df
UtilsAssociation(cp, events, tolerance_days) ==
    LET nearby_events == SortByProximity(
                            UtilsNearbyEvents(events, cp.mean_date, tolerance_days))
    IN  [changepoint_id    |-> cp.changepoint_id,
         changepoint_date  |-> cp.mean_date,
         ci_lower_date     |-> cp.ci_lower_date,
         ci_upper_date     |-> cp.ci_upper_date,
         associated_events |-> Len(nearby_events),
         closest_event     |-> IF nearby_events # <<>> THEN nearby_events[1] ELSE None,
         all_nearby_events |-> List(nearby_events)]

associate_events_with_changepoints(tolerance_days) ==
    /\ IsUtils
    /\ ret' = Returned("associate_events_with_changepoints",
                       [tolerance_days |-> tolerance_days],
                       DataFrame([k \in 1..Len(self.changepoints_df) |->
                                    UtilsAssociation(self.changepoints_df[k],
                                                     self.events_df, tolerance_days)]))
    /\ UNCHANGED <<objectVars, evalVars, pooled>>

\* the positions of pre_data and post_data
PreData(data, event_date, pre_window) ==
    {i \in DOMAIN data.index :
        data.index[i] >= event_date - pre_window /\ data.index[i] <= event_date - 1}

PostData(data, event_date, post_window) ==
    {i \in DOMAIN data.index :
        data.index[i] >= event_date /\ data.index[i] <= event_date + post_window}

\* data[data.index >= event_date].iloc[0], or NaN, kept as None
EventPrice(data, event_date) ==
    LET from_event == {i \in DOMAIN data.index : data.index[i] >= event_date}
    IN  IF from_event = {} THEN None
        ELSE data.values[CHOOSE i \in from_event : \A j \in from_event : i <= j]

\* the metrics of calculate_price_impact; the volatilities and the t-test,
\* which take square roots, are not kept
PriceImpact(data, event_date, pre_window, post_window) ==
    LET pre_data == PreData(data, event_date, pre_window)
        post_data == PostData(data, event_date, post_window)
        n_pre == Cardinality(pre_data)
        n_post == Cardinality(post_data)
        sum_pre == SumOver(data, pre_data)
        sum_post == SumOver(data, post_data)
        event_price == EventPrice(data, event_date)
    IN  IF n_pre = 0 \/ n_post = 0
        THEN [error |-> "Insufficient data for impact calculation"]
        ELSE [event_date           |-> event_date,
              pre_mean             |-> [sum |-> sum_pre, count |-> n_pre],
              post_mean            |-> [sum |-> sum_post, count |-> n_post],
              event_price          |-> event_price,
              immediate_impact_abs |-> [num |-> event_price * n_pre - sum_pre,
                                        den |-> n_pre],
              immediate_impact_pct |-> [num |-> 100 * (event_price * n_pre - sum_pre),
                                        den |-> sum_pre],
              avg_impact_abs       |-> [num |-> sum_post * n_pre - sum_pre * n_post,
                                        den |-> n_post * n_pre],
              avg_impact_pct       |-> [num |-> 100 * (sum_post * n_pre - sum_pre * n_post),
                                        den |-> n_post * sum_pre],
              pre_window_days      |-> n_pre,
              post_window_days     |-> n_post]

calculate_price_impact(event_date, pre_window, post_window) ==
    /\ IsUtils
    /\ ret' = Returned("calculate_price_impact",
                       [event_date |-> event_date,
                        pre_window |-> pre_window,
                        post_window |-> post_window],
                       PriceImpact(self.data, event_date, pre_window, post_window))
    /\ UNCHANGED <<objectVars, evalVars, pooled>>

(***************************************************************************)
(* BayesianChangePointModel.  Its summary attribute is kept in results,    *)
(* under "summary".                                                        *)
(***************************************************************************)
IsModel == self.class = "BayesianChangePointModel"

\* the attributes __init__ sets from its arguments: data.dropna(), its
\* length and its index
ModelOn(rows, max_changepoints) ==
    [class |-> "BayesianChangePointModel",
     max_changepoints |-> max_changepoints,
     data |-> SeriesOf(DropNa(rows)),
     n_obs |-> Len(DropNa(rows)),
     dates |-> SeriesOf(DropNa(rows)).index]

Model_init(rows, max_changepoints) ==
    /\ self = ModelOn(rows, max_changepoints)
    /\ fits = 0
    /\ model = None
    /\ trace = None
    /\ log_returns = None
    /\ change_points = None
    /\ results = <<>>
    /\ ret = Returned("__init__", NoArgs, None)
    /\ point = None
    /\ deterministics = None
    /\ pooled = None
    /\ analysis_results = None
    /\ pc = None
    /\ returned = None

build_model ==
    /\ IsModel
    /\ model' = [kind |-> "changepoint_model",
                 n_changepoints |-> self.max_changepoints,
                 observed |-> "data",
                 n_obs |-> self.n_obs]
    /\ ret' = Returned("build_model", NoArgs, model')
    /\ UNCHANGED <<log_returns, trace, change_points, results, fits, self, evalVars, pooled>>

Model_fit_model(draws, tune, chains) ==
    /\ IsModel
    /\ UNCHANGED <<evalVars, pooled>>
    /\ IF model = None
       THEN /\ ret' = Raised("fit_model", SamplerArgs(draws, tune, chains), "ValueError")
            /\ UNCHANGED <<log_returns, model, trace, change_points, results, fits, self>>
       ELSE \E history \in Histories(model.n_changepoints, model.n_obs,
                                     chains, tune + draws) :
                LET sampled == PmSample(model, history, tune)
                IN  /\ fits' = fits + 1
                    /\ trace' = sampled
                    /\ results' = Put(results, "summary", AzSummary(sampled))
                    /\ ret' = Returned("fit_model", SamplerArgs(draws, tune, chains),
                                       sampled)
                    /\ UNCHANGED <<log_returns, model, change_points, self>>

get_change_points(ci_num) ==
    /\ IsModel
    /\ IF trace = None
       THEN ret' = Raised("get_change_points", [credible_num |-> ci_num], "ValueError")
       ELSE ret' = Returned("get_change_points", [credible_num |-> ci_num],
                            DataFrame(ChangePointRows(trace, self.max_changepoints,
                                                      self.dates, ci_num)))
    /\ UNCHANGED <<objectVars, evalVars, pooled>>

(***************************************************************************)
(* The specification: one object of either class and every sequence of     *)
(* calls on it.                                                            *)
(***************************************************************************)
TargetSeries == {"returns", "prices"}

\* tolerance_days and window_days of the calls
ToleranceDays == {10}

WindowDays == {7}

Init ==
    \/ \E events_data \in {None, EventsData} : Analyzer_init(DataRows, events_data)
    \/ \E max_changepoints \in 1..MaxChangepoints :
            Model_init(DataRows, max_changepoints)

\* the sampling runs of one object are capped at MaxFits
Next ==
    \/ \E use_log_returns \in BOOLEAN :
            prepare_data(use_log_returns) /\ UNCHANGED appVars
    \/ \E target_series \in TargetSeries :
            build_single_changepoint_model(target_series) /\ UNCHANGED appVars
    \/ \E n_changepoints \in 1..MaxChangepoints, target_series \in TargetSeries :
            /\ build_multiple_changepoint_model(n_changepoints, target_series)
            /\ UNCHANGED appVars
    \/ \E cfg \in SamplerConfigs :
            /\ model # None => fits < MaxFits
            /\ fit_model(cfg.draws, cfg.tune, cfg.chains)
            /\ UNCHANGED appVars
    \/ \E tolerance_days \in ToleranceDays :
            associate_with_events(tolerance_days) /\ UNCHANGED appVars
    \/ \E window_days \in WindowDays :
            quantify_impact(window_days) /\ UNCHANGED appVars
    \/ build_model /\ UNCHANGED appVars
    \/ \E cfg \in SamplerConfigs :
            /\ model # None => fits < MaxFits
            /\ Model_fit_model(cfg.draws, cfg.tune, cfg.chains)
            /\ UNCHANGED appVars
    \/ \E ci_num \in 1..(CredibleDen - 1) :
            get_change_points(ci_num) /\ UNCHANGED appVars

Spec == Init /\ [][Next]_vars

(***************************************************************************)
(* The backend (backend/app.py).  One process-wide analyzer serves every   *)
(* request; the server handles requests on concurrent threads.  A request  *)
(* to an analysis route calls ensure_analysis_complete, whose statements   *)
(* interleave with those of the other requests.  The sampler's run is      *)
(* scaled to AppDraws draws and AppTune tuning draws per chain.            *)
(***************************************************************************)
\* concurrent requests
NRequests == 2

Requests == 1..NRequests

\* n_changepoints and chains of the backend's build and fit
AppChangepoints == 4

AppChains == 2

AppDraws == 1

AppTune == 1

\* largest number of completed fits of the backend's analyzer
MaxAppFits == 2

\* the routes that call ensure_analysis_complete
AnalysisRoutes == {"/api/change-points", "/api/event-associations", "/api/impact-analysis"}

\* the public methods BayesianChangePointAnalyzer defines
AnalyzerMethods ==
    {"prepare_data", "build_single_changepoint_model",
     "build_multiple_changepoint_model", "fit_model", "plot_diagnostics",
     "plot_changepoints", "associate_with_events", "quantify_impact",
     "generate_insights_report"}

\* load_brent_data returns a frame indexed by Date with the column Price;
\* initialize_analysis adds the column price, a copy of it, and hands the
\* frame of both columns to the analyzer
AppColumns == {"Price", "price"}

AppFrame(series) ==
    [index   |-> series.index,
     columns |-> AppColumns,
     values  |-> [i \in DOMAIN series.values |->
                    [c \in AppColumns |-> series.values[i]]]]

\* load_events_from_csv: the saved catalog with its end_date; the backend
\* adds the columns event and type.  description and region are not kept.
AppEventsData ==
    [k \in 1..Len(EventsData) |->
        [event_id        |-> k,
         date            |-> EventsData[k].Date,
         event_name      |-> EventsData[k].Name,
         category        |-> EventsData[k].Category,
         expected_impact |-> EventsData[k].Expected_Impact,
         duration_days   |-> 7,
         end_date        |-> EventsData[k].Date + 7,
         event           |-> EventsData[k].Name,
         type            |-> EventsData[k].Category]]

\* the analyzer after prepare_data(plot=False) on the frame: the statistics
\* prepare_data stores are taken per column
AppPrepared ==
    LET series == SeriesOf(DropNa(DataRows))
        lr == PreparedLogReturns(series, None, TRUE)
    IN  [self |-> [class |-> "BayesianChangePointAnalyzer",
                   data |-> AppFrame(series),
                   events_data |-> AppEventsData],
         log_returns |-> AppFrame(lr),
         results |->
            Put(Put(<<>>, "data_summary",
                    [start_date |-> IndexMin(series.index),
                     end_date |-> IndexMax(series.index),
                     n_observations |-> IndexLen(series.index)]),
                "returns_summary",
                [mean_return |-> [c \in AppColumns |->
                                    [sum_of |-> lr.values,
                                     count  |-> IndexLen(lr.index)]]])]

\* the state initialize_analysis leaves: the analyzer constructed on the
\* frame and the events catalog, its data prepared, the cached results empty
InitApp ==
    /\ self = AppPrepared.self
    /\ fits = 0
    /\ log_returns = AppPrepared.log_returns
    /\ model = None
    /\ trace = None
    /\ change_points = None
    /\ results = AppPrepared.results
    /\ ret = Returned("prepare_data", [use_log_returns |-> TRUE], None)
    /\ point = None
    /\ deterministics = None
    /\ pooled = None
    /\ analysis_results = [change_points |-> <<>>,
                           event_associations |-> <<>>,
                           impact_analysis |-> <<>>,
                           model_diagnostics |-> EmptyDict]
    /\ pc = [t \in Requests |-> "idle"]
    /\ returned = [t \in Requests |-> None]

\* a request for an analysis route arrives and calls ensure_analysis_complete
app_request(t) ==
    /\ pc[t] = "idle"
    /\ \E route \in AnalysisRoutes :
          /\ pc' = [pc EXCEPT ![t] = "ensure"]
          /\ returned' = [returned EXCEPT ![t] = [route |-> route]]
    /\ UNCHANGED <<objectVars, ret, evalVars, pooled, analysis_results>>

\* if not analysis_results or not analysis_results.get('change_points')
app_check(t) ==
    /\ pc[t] = "ensure"
    /\ IF analysis_results = None \/ analysis_results.change_points = <<>>
       THEN /\ pc' = [pc EXCEPT ![t] = "build"]
            /\ UNCHANGED returned
       ELSE /\ pc' = [pc EXCEPT ![t] = "respond"]
            /\ returned' = [returned EXCEPT
                              ![t] = [route |-> returned[t].route,
                                      value |-> TRUE, error |-> "None"]]
    /\ UNCHANGED <<objectVars, ret, evalVars, pooled, analysis_results>>

\* analyzer.build_multiple_changepoint_model(n_changepoints=4).  Every
\* request builds on the same data with the same arguments, so the
\* statements of one build write what those of another write.
app_build(t) ==
    /\ pc[t] = "build"
    /\ build_multiple_changepoint_model(AppChangepoints, "returns")
    /\ pc' = [pc EXCEPT ![t] = "fit"]
    /\ UNCHANGED <<analysis_results, returned>>

\* the observed array the build hands to pm.Normal has one column per
\* column of the frame, against a mean of one entry per row; a PyMC that
\* rejects it at the declaration raises inside the with block, before
\* self.model is assigned, and the except clause returns False
app_build_raise(t) ==
    /\ pc[t] = "build"
    /\ Cardinality(log_returns.columns) > 1
    /\ pc' = [pc EXCEPT ![t] = "respond"]
    /\ returned' = [returned EXCEPT
                      ![t] = [route |-> returned[t].route,
                              value |-> FALSE, error |-> "ValueError"]]
    /\ UNCHANGED <<objectVars, ret, evalVars, pooled, analysis_results>>

\* analyzer.fit_model(draws=1000, tune=1000, chains=2) is entered
app_fit_call(t) ==
    /\ pc[t] = "fit"
    /\ pc' = [pc EXCEPT ![t] = "sampling"]
    /\ UNCHANGED <<objectVars, ret, evalVars, pooled, analysis_results, returned>>

\* self.trace = pm.sample(...): the sampler returns
app_fit_return(t) ==
    /\ pc[t] = "sampling"
    /\ fits < MaxAppFits
    /\ \E history \in Histories(model.n_changepoints, model.n_obs,
                                 AppChains, AppTune + AppDraws) :
          trace' = PmSample(model, history, AppTune)
    /\ fits' = fits + 1
    /\ pc' = [pc EXCEPT ![t] = "summary"]
    /\ UNCHANGED <<log_returns, model, change_points, results, self, ret,
                   evalVars, pooled, analysis_results, returned>>

\* _extract_results, summary = az.summary(self.trace): the summary of the
\* trace the analyzer holds now, kept in a local of the call
app_fit_summary(t) ==
    /\ pc[t] = "summary"
    /\ trace # None
    /\ \E r_hat \in AzRHat(trace) :
          returned' = [returned EXCEPT
                         ![t] = [route |-> returned[t].route,
                                 summary |-> [chains |-> Len(trace.posterior.tau),
                                              draws  |-> Len(trace.posterior.tau[1]),
                                              r_hat  |-> r_hat]]]
    /\ pc' = [pc EXCEPT ![t] = "store_summary"]
    /\ UNCHANGED <<objectVars, ret, evalVars, pooled, analysis_results>>

\* self.results['summary'] = summary
app_fit_store_summary(t) ==
    /\ pc[t] = "store_summary"
    /\ results' = Put(results, "summary", returned[t].summary)
    /\ pc' = [pc EXCEPT ![t] = "store_diagnostics"]
    /\ UNCHANGED <<log_returns, model, trace, change_points, fits, self, ret,
                   evalVars, pooled, analysis_results, returned>>

\* self.results['diagnostics'] = {...}, computed from the local summary
app_fit_store_diagnostics(t) ==
    /\ pc[t] = "store_diagnostics"
    /\ results' = Put(results, "diagnostics", Diagnostics(returned[t].summary.r_hat))
    /\ pc' = [pc EXCEPT ![t] = "branch"]
    /\ UNCHANGED <<log_returns, model, trace, change_points, fits, self, ret,
                   evalVars, pooled, analysis_results, returned>>

\* if self.results['model_type'] == 'single_changepoint': ... else: the
\* backend builds the multiple model only, the else branch is taken
app_fit_branch(t) ==
    /\ pc[t] = "branch"
    /\ results["model_type"] # "single_changepoint"
    /\ pc' = [pc EXCEPT ![t] = "read_tau"]
    /\ UNCHANGED <<objectVars, ret, evalVars, pooled, analysis_results, returned>>

\* tau_samples = self.trace.posterior['tau'].values, a local of the call
app_fit_read_tau(t) ==
    /\ pc[t] = "read_tau"
    /\ returned' = [returned EXCEPT
                      ![t] = [route |-> returned[t].route,
                              tau_samples |-> trace.posterior.tau]]
    /\ pc' = [pc EXCEPT ![t] = "read_n_cp"]
    /\ UNCHANGED <<objectVars, ret, evalVars, pooled, analysis_results>>

\* n_cp = self.results['n_changepoints'], a local of the call
app_fit_read_n_cp(t) ==
    /\ pc[t] = "read_n_cp"
    /\ returned' = [returned EXCEPT
                      ![t] = [route |-> returned[t].route,
                              tau_samples |-> returned[t].tau_samples,
                              n_cp |-> results["n_changepoints"]]]
    /\ pc' = [pc EXCEPT ![t] = "clear"]
    /\ UNCHANGED <<objectVars, ret, evalVars, pooled, analysis_results>>

\* self.change_points = []; the loop over range(n_cp) starts at i = 0
app_fit_clear(t) ==
    /\ pc[t] = "clear"
    /\ change_points' = List(<<>>)
    /\ returned' = [returned EXCEPT
                      ![t] = [route |-> returned[t].route,
                              tau_samples |-> returned[t].tau_samples,
                              n_cp |-> returned[t].n_cp,
                              i |-> 0]]
    /\ pc' = [pc EXCEPT ![t] = "append"]
    /\ UNCHANGED <<log_returns, model, trace, results, fits, self, ret,
                   evalVars, pooled, analysis_results>>

\* one turn of the loop: self.change_points.append({...}) on the list the
\* analyzer holds now; tau_hdi is taken from the trace it holds now
app_fit_append(t) ==
    /\ pc[t] = "append"
    /\ returned[t].i < returned[t].n_cp
    /\ LET tau_i == Flatten(Column(returned[t].tau_samples, returned[t].i))
       IN  change_points' =
              List(Append(change_points.items,
                          [tau_mean      |-> Mean(tau_i),
                           tau_median_x2 |-> MedianX2(tau_i),
                           tau_hdi       |-> Hdi(Flatten(Column(trace.posterior.tau,
                                                               returned[t].i))),
                           date_estimate |->
                              results["dates"][IntOf(MedianX2(tau_i), 2)]]))
    /\ returned' = [returned EXCEPT ![t].i = @ + 1]
    /\ UNCHANGED <<log_returns, model, trace, results, fits, self, ret,
                   evalVars, pooled, analysis_results, pc>>

\* the loop is over: _extract_results and fit_model return
app_fit_done(t) ==
    /\ pc[t] = "append"
    /\ returned[t].i = returned[t].n_cp
    /\ ret' = Returned("fit_model", SamplerArgs(AppDraws, AppTune, AppChains), None)
    /\ returned' = [returned EXCEPT ![t] = [route |-> returned[t].route]]
    /\ pc' = [pc EXCEPT ![t] = "extract"]
    /\ UNCHANGED <<objectVars, evalVars, pooled, analysis_results>>

\* the sampler raises: the except clause returns False
app_fit_raise(t) ==
    /\ pc[t] = "sampling"
    /\ pc' = [pc EXCEPT ![t] = "respond"]
    /\ returned' = [returned EXCEPT
                      ![t] = [route |-> returned[t].route,
                              value |-> FALSE, error |-> "SamplingError"]]
    /\ UNCHANGED <<objectVars, ret, evalVars, pooled, analysis_results>>

\* change_points = analyzer.extract_changepoints(): the analyzer has no
\* such method, the AttributeError is caught and False is returned before
\* analysis_results.update is reached
app_extract(t) ==
    /\ pc[t] = "extract"
    /\ "extract_changepoints" \notin AnalyzerMethods
    /\ pc' = [pc EXCEPT ![t] = "respond"]
    /\ returned' = [returned EXCEPT
                      ![t] = [route |-> returned[t].route,
                              value |-> FALSE, error |-> "AttributeError"]]
    /\ UNCHANGED <<objectVars, ret, evalVars, pooled, analysis_results>>

\* date.strftime('%Y-%m-%d'): the text of a day
Strftime(date) == [ymd |-> date]

\* d.get(key, default) of a dict
DictGet(d, key, default) == IF key \in DOMAIN d THEN d[key] ELSE default

\* event.get('confidence', 0.5): the default, one half
DefaultConfidence == [num |-> 1, den |-> 2]

\* .get('significance', 'unknown')
DefaultSignificance == "unknown"

\* get_change_points: the list built from the cached change points; the
\* numbers handed to float() and int() are kept as they are
ServedChangePoints(cached) ==
    [k \in 1..Len(cached) |->
        [id |-> k - 1,
         date |-> Strftime(cached[k].date),
         probability |-> cached[k].probability,
         confidence_interval |->
            [lower |-> Strftime(cached[k].confidence_interval[1]),
             upper |-> Strftime(cached[k].confidence_interval[2])],
         price_at_changepoint |-> DictGet(cached[k], "price_at_changepoint", 0)]]

\* get_event_associations: the list built from the cached associations
ServedAssociations(cached) ==
    [k \in 1..Len(cached) |->
        [changepoint_id |-> cached[k].changepoint_id,
         changepoint_date |-> Strftime(cached[k].changepoint_date),
         associated_events |->
            [j \in 1..Len(cached[k].associated_events) |->
                LET event == cached[k].associated_events[j]
                IN  [event_id |-> event.event_id,
                     event_date |-> Strftime(event.event_date),
                     event_name |-> event.event_name,
                     days_difference |-> event.days_difference,
                     confidence |-> DictGet(event, "confidence",
                                            DefaultConfidence)]]]]

\* get_impact_analysis: the list built from the cached impacts; of
\* price_impact and volatility_impact the four keys named are served
ServedImpacts(cached) ==
    [k \in 1..Len(cached) |->
        LET impact == cached[k]
        IN  [changepoint_id |-> impact.changepoint_id,
             changepoint_date |-> Strftime(impact.changepoint_date),
             price_impact |->
                [before_mean |-> impact.price_impact.before_mean,
                 after_mean |-> impact.price_impact.after_mean,
                 change_percent |-> impact.price_impact.change_percent,
                 significance |-> DictGet(impact.price_impact, "significance",
                                          DefaultSignificance)],
             volatility_impact |->
                [before_std |-> impact.volatility_impact.before_std,
                 after_std |-> impact.volatility_impact.after_std,
                 change_percent |-> impact.volatility_impact.change_percent,
                 significance |-> DictGet(impact.volatility_impact, "significance",
                                          DefaultSignificance)]]]

\* the body of the 200 answer of a route
RouteBody(route) ==
    IF route = "/api/change-points"
    THEN ServedChangePoints(analysis_results.change_points)
    ELSE IF route = "/api/event-associations"
    THEN ServedAssociations(analysis_results.event_associations)
    ELSE ServedImpacts(analysis_results.impact_analysis)

\* the status and the body a route answers with, ensure_analysis_complete
\* having returned value: 500 when it returned False, 500 when
\* analysis_results is None or lacks the route's key, else the list built
\* from the cached results
RouteAnswer(route, value) ==
    LET key == IF route = "/api/change-points" THEN "change_points"
               ELSE IF route = "/api/event-associations" THEN "event_associations"
               ELSE "impact_analysis"
        failed == IF route = "/api/change-points"
                  THEN "Change point analysis failed"
                  ELSE IF route = "/api/event-associations"
                  THEN "Event associations analysis failed"
                  ELSE "Impact analysis failed"
        not_available == IF route = "/api/change-points"
                         THEN "Change point analysis not available"
                         ELSE IF route = "/api/event-associations"
                         THEN "Event associations not available"
                         ELSE "Impact analysis not available"
    IN  IF ~value
        THEN [status |-> 500, body |-> [error |-> failed]]
        ELSE IF analysis_results = None \/ key \notin DOMAIN analysis_results
        THEN [status |-> 500, body |-> [error |-> not_available]]
        ELSE [status |-> 200, body |-> RouteBody(route)]

\* the route answers
app_respond(t) ==
    /\ pc[t] = "respond"
    /\ pc' = [pc EXCEPT ![t] = "idle"]
    /\ LET answer == RouteAnswer(returned[t].route, returned[t].value)
       IN  returned' = [returned EXCEPT
                          ![t] = [route |-> returned[t].route,
                                  value |-> returned[t].value,
                                  error |-> returned[t].error,
                                  status |-> answer.status,
                                  body |-> answer.body]]
    /\ UNCHANGED <<objectVars, ret, evalVars, pooled, analysis_results>>

NextApp ==
    \E t \in Requests :
        \/ app_request(t)
        \/ app_check(t)
        \/ app_build(t)
        \/ app_build_raise(t)
        \/ app_fit_call(t)
        \/ app_fit_return(t)
        \/ app_fit_summary(t)
        \/ app_fit_store_summary(t)
        \/ app_fit_store_diagnostics(t)
        \/ app_fit_branch(t)
        \/ app_fit_read_tau(t)
        \/ app_fit_read_n_cp(t)
        \/ app_fit_clear(t)
        \/ app_fit_append(t)
        \/ app_fit_done(t)
        \/ app_fit_raise(t)
        \/ app_extract(t)
        \/ app_respond(t)

SpecApp == InitApp /\ [][NextApp]_vars

\* C9: a call of ensure_analysis_complete whose sampling succeeded returns
\* True, and analysis_results then holds non-empty change_points.
C9_CompleteAfterSampling ==
    \A t \in Requests :
        (pc[t] = "respond" /\ returned[t].error \notin {"SamplingError", "ValueError"}) =>
            /\ returned[t].value = TRUE
            /\ analysis_results.change_points # <<>>

\* the positions of a request that found no cached change points and is
\* inside the try block before extract_changepoints: about to call
\* build_multiple_changepoint_model, about to call fit_model, or inside
\* fit_model
InBuildOrFit == {"build", "fit", "sampling", "summary", "store_summary",
                 "store_diagnostics", "branch", "read_tau", "read_n_cp",
                 "clear", "append"}

\* C10: at any time at most one request is building or fitting a model on
\* the process-wide analyzer; no request starts a second build/fit while
\* one is in flight.
C10_AtMostOneBuildOrFitInFlight ==
    Cardinality({t \in Requests : pc[t] \in InBuildOrFit}) <= 1

\* C11: while the requests come one after the other (only the first
\* request slot has ever been used), fit_model is run at most once: the
\* later requests find the stored change points and fit nothing.
C11_FitOnceAcrossSequentialRequests ==
    (\A t \in Requests \ {1} : returned[t] = None) => fits <= 1

(***************************************************************************)
(* Properties of the two classes                                           *)
(***************************************************************************)

Ascending(v) == \A j \in 1..(Len(v) - 1) : v[j] <= v[j + 1]

InSupport(v, n_obs) == \A j \in 1..Len(v) : TauLower <= v[j] /\ v[j] <= TauUpper(n_obs)

\* the trace holds one vector of change points per draw: it was sampled
\* from build_multiple_changepoint_model or from build_model
IsVectorTrace(tr) ==
    /\ tr # None
    /\ \/ IsModel
       \/ IsAnalyzer /\ "tau_raw" \in DOMAIN tr.posterior

\* the index of the series a trace was sampled on
ObservedIndex(tr) ==
    IF tr.observed_data.y = "log_returns" THEN LogReturnsIndex ELSE DataIndex

\* C1: in every draw of the posterior of either class, the change points
\* recorded as 'tau' are in ascending order and each lies in [1, N - 2],
\* N the number of observations the model was built on.
C1_TauAscendingInSupport ==
    IsVectorTrace(trace) =>
        \A c \in DOMAIN trace.posterior.tau :
            \A d \in DOMAIN trace.posterior.tau[c] :
                /\ Ascending(trace.posterior.tau[c][d])
                /\ InSupport(trace.posterior.tau[c][d], trace.observed_data.n_obs)

\* C4: the date reported for a change point is the index entry, of the
\* series the model was sampled on, at the median position truncated to an
\* integer: a median of m + 0.5 reports the date at m, and m is in [1, N - 2].
C4_DateAtTruncatedMedian ==
    /\ (IsAnalyzer /\ change_points # None) =>
          \A k \in DOMAIN change_points.items :
              \E m \in TauLower..TauUpper(trace.observed_data.n_obs) :
                  /\ 2 * m <= change_points.items[k].tau_median_x2
                  /\ change_points.items[k].tau_median_x2 <= 2 * m + 1
                  /\ change_points.items[k].date_estimate = ObservedIndex(trace)[m]
    /\ (IsModel /\ ret.op = "get_change_points" /\ ret.raised = "None") =>
          \A k \in DOMAIN ret.value.rows :
              \E m \in TauLower..TauUpper(self.n_obs) :
                  /\ 2 * m <= ret.value.rows[k].median_position_x2
                  /\ ret.value.rows[k].median_position_x2 <= 2 * m + 1
                  /\ ret.value.rows[k].median_date = DataIndex[m]

\* a fit whose pooled median falls between two positions
C4_Witness ==
    /\ IsAnalyzer
    /\ change_points # None
    /\ \E k \in DOMAIN change_points.items :
           /\ change_points.items[k].tau_median_x2 = 3
           /\ change_points.items[k].date_estimate = DataIndex[1]

\* the sum, over every chain and draw of a trace, of change point i
TraceSum(tr, i) ==
    SumSeq([c \in DOMAIN tr.posterior.tau |->
              SumSeq([d \in DOMAIN tr.posterior.tau[c] |->
                        IF IsVectorTrace(tr) THEN tr.posterior.tau[c][d][i + 1]
                                             ELSE tr.posterior.tau[c][d]])])

\* C5: a fit with `chains` chains and `draws` draws leaves a posterior of
\* exactly chains x draws samples (no tuning draw among them), and every
\* reported statistic pools exactly those samples, none dropped or repeated.
C5_PooledCountIsChainsTimesDraws ==
    [][ /\ (ret'.op = "fit_model" /\ ret'.raised = "None") =>
            /\ Len(trace'.posterior.tau) = ret'.args.chains
            /\ \A c \in DOMAIN trace'.posterior.tau :
                   Len(trace'.posterior.tau[c]) = ret'.args.draws
            /\ IsAnalyzer =>
                   \A k \in DOMAIN change_points'.items :
                       /\ change_points'.items[k].tau_mean.count
                              = ret'.args.chains * ret'.args.draws
                       /\ change_points'.items[k].tau_mean.sum = TraceSum(trace', k - 1)
        /\ (ret'.op = "get_change_points" /\ ret'.raised = "None") =>
            \A k \in DOMAIN ret'.value.rows :
                /\ ret'.value.rows[k].mean_position.count
                       = Len(trace.posterior.tau) * Len(trace.posterior.tau[1])
                /\ ret'.value.rows[k].mean_position.sum = TraceSum(trace, k - 1)
      ]_vars

\* a fit of two chains that discarded a tuning draw
C5_Witness ==
    /\ ret.op = "fit_model"
    /\ ret.raised = "None"
    /\ ret.args.chains = 2
    /\ ret.args.tune = 1
    /\ IsAnalyzer
    /\ change_points.items[1].tau_mean.count = 2

\* C7: fit_model called on an object with no built model raises
\* ValueError before any sampling has run, and leaves trace, change_points
\* and results as they were.
C7_FitWithoutModelRaises ==
    [][ (model = None /\ ret'.op = "fit_model") =>
            /\ ret'.raised = "ValueError"
            /\ fits' = fits
            /\ trace' = trace
            /\ change_points' = change_points
            /\ results' = results
      ]_vars

\* fit_model has raised on an analyzer whose results hold the data summary
C7_Witness ==
    /\ ret.op = "fit_model"
    /\ ret.raised = "ValueError"
    /\ model = None
    /\ trace = None
    /\ "data_summary" \in DOMAIN results

\* C8: get_change_points, associate_with_events and quantify_impact, called
\* before any successful fit, raise instead of returning a value.
C8_ReadBeforeFitRaises ==
    (/\ fits = 0
     /\ ret.op \in {"get_change_points", "associate_with_events", "quantify_impact"})
        => ret.raised # "None"

(***************************************************************************)
(* Evaluation of a built model.  A model of any of the three kinds, built  *)
(* on a series of n_obs observations, is evaluated at the points of its    *)
(* free variable.                                                          *)
(***************************************************************************)
\* the longest series a model is evaluated on
MaxObs == 7

ModelKinds == {"single_changepoint", "multiple_changepoint", "changepoint_model"}

BuiltModel(kind, n_changepoints, n_obs) ==
    [kind |-> kind, n_changepoints |-> n_changepoints,
     observed |-> "data", n_obs |-> n_obs]

InitEval ==
    /\ \E kind \in ModelKinds, n_obs \in 3..MaxObs, n_changepoints \in 1..MaxChangepoints :
          /\ kind = "single_changepoint" => n_changepoints = 1
          /\ model = BuiltModel(kind, n_changepoints, n_obs)
          /\ self = [class |-> IF kind = "changepoint_model"
                               THEN "BayesianChangePointModel"
                               ELSE "BayesianChangePointAnalyzer"]
    /\ fits = 0
    /\ log_returns = None
    /\ trace = None
    /\ change_points = None
    /\ results = <<>>
    /\ ret = Returned("build", NoArgs, None)
    /\ point = None
    /\ deterministics = None
    /\ pooled = None
    /\ analysis_results = None
    /\ pc = None
    /\ returned = None

Evaluate ==
    /\ model # None
    /\ \E tau_value \in RawDraws(model.n_changepoints, model.n_obs) :
          /\ point' = tau_value
          /\ deterministics' = EvalModel(model, tau_value)
    /\ UNCHANGED <<objectVars, ret, pooled, appVars>>

SpecEval == InitEval /\ [][Evaluate]_vars

\* the number of change points of tau that lie strictly before index i
CountBefore(tau, i) == Cardinality({k \in DOMAIN tau : tau[k] < i})

\* C2: build_multiple_changepoint_model assigns every index i in 0..N-1 the
\* regime r(i) = the number of change points with tau_k < i, a value in
\* [0, K]; build_single_changepoint_model selects the 'before' parameters
\* at i exactly when that count is 0, the 'after' parameters otherwise.
C2_RegimeIsCountBefore ==
    /\ (deterministics # None /\ model.kind = "multiple_changepoint") =>
          \A i \in 0..(model.n_obs - 1) :
              /\ deterministics.regime[i] = CountBefore(deterministics.tau, i)
              /\ deterministics.regime[i] \in 0..model.n_changepoints
    /\ (deterministics # None /\ model.kind = "single_changepoint") =>
          \A i \in 0..(model.n_obs - 1) :
              /\ deterministics.mu[i] = "before"
                    <=> CountBefore(<<deterministics.tau>>, i) = 0
              /\ deterministics.mu[i] = "after"
                    <=> CountBefore(<<deterministics.tau>>, i) # 0
              /\ deterministics.lambda[i] = deterministics.mu[i]

\* two change points drawn out of order, the first index in regime 0, the
\* index of the earlier change point still in regime 0, the last in regime 2
C2_Witness ==
    /\ deterministics # None
    /\ model.kind = "multiple_changepoint"
    /\ model.n_changepoints = 2
    /\ point[1] > point[2]
    /\ deterministics.regime[point[2]] = 0
    /\ deterministics.regime[point[2] + 1] = 1
    /\ deterministics.regime[model.n_obs - 1] = 2

(***************************************************************************)
(* Summaries of one change point's pooled samples.  The statistics sort    *)
(* the samples or sum them, so a pool is taken in ascending order: it is   *)
(* given by how many times each position was drawn.                        *)
(***************************************************************************)
\* the most samples in a pool, and the series length the pool is drawn on
MaxPooled == 17

PoolObs == 5

RECURSIVE Repeat(_, _)
Repeat(v, n) == IF n = 0 THEN <<>> ELSE <<v>> \o Repeat(v, n - 1)

RECURSIVE PoolOf(_, _)
PoolOf(counts, v) ==
    IF v > TauUpper(PoolObs) THEN <<>>
    ELSE Repeat(v, counts[v]) \o PoolOf(counts, v + 1)

Pools ==
    {PoolOf(counts, TauLower) :
        counts \in {c \in [TauSupport(PoolObs) -> 0..MaxPooled] :
                        /\ SumSeq([j \in 1..TauUpper(PoolObs) |-> c[j]]) >= 1
                        /\ SumSeq([j \in 1..TauUpper(PoolObs) |-> c[j]]) <= MaxPooled}}

InitPool ==
    /\ pooled \in Pools
    /\ self = [class |-> "BayesianChangePointModel", max_changepoints |-> 1,
               n_obs |-> PoolObs, dates |-> SeriesIndex(PoolObs)]
    /\ fits = 0
    /\ log_returns = None
    /\ model = None
    /\ trace = None
    /\ change_points = None
    /\ results = <<>>
    /\ ret = Returned("pool", NoArgs, None)
    /\ point = None
    /\ deterministics = None
    /\ analysis_results = None
    /\ pc = None
    /\ returned = None

\* both summaries of the pool: the row of get_change_points and the entry
\* of _extract_results
Summarize(ci_num) ==
    /\ ret.op = "pool"
    /\ ret' = Returned("summarize", [credible_num |-> ci_num],
                       [row |-> ChangePointRow(pooled, 0, self.dates, ci_num),
                        change_point |-> ChangePointOf(pooled, self.dates)])
    /\ UNCHANGED <<objectVars, evalVars, pooled, appVars>>

NextPool == \E ci_num \in 1..(CredibleDen - 1) : Summarize(ci_num)

SpecPool == InitPool /\ [][NextPool]_vars

\* C3: for every credible_interval in (0, 1) the row of get_change_points
\* has ci_lower <= median_position <= ci_upper, and the tau_hdi interval of
\* _extract_results contains tau_median.
C3_IntervalsHoldMedian ==
    ret.op = "summarize" =>
        LET row == ret.value.row
            cp == ret.value.change_point
        IN  /\ 2 * row.ci_lower.num <= row.median_position_x2 * row.ci_lower.den
            /\ row.median_position_x2 * row.ci_upper.den <= 2 * row.ci_upper.num
            /\ 2 * cp.tau_hdi[1] <= cp.tau_median_x2
            /\ cp.tau_median_x2 <= 2 * cp.tau_hdi[2]

\* a pool large enough for the HDI to leave out its smallest sample, with
\* the lower percentile bound strictly below the median
C3_Witness ==
    /\ ret.op = "summarize"
    /\ Len(pooled) = MaxPooled
    /\ ret.value.change_point.tau_hdi[1] > pooled[1]
    /\ 2 * ret.value.row.ci_lower.num
          < ret.value.row.median_position_x2 * ret.value.row.ci_lower.den

(***************************************************************************)
(* The event association and the impact of the change points: an analyzer  *)
(* over a drawn series and catalog that builds the multiple change point   *)
(* model on the prices, fits it with one chain of one draw and then        *)
(* associates and quantifies; and the functions of analysis_utils on the   *)
(* change point table of a BayesianChangePointModel fitted the same way.   *)
(***************************************************************************)
\* observations of the series
PostObs == 7

\* a daily series that steps from 50 to 70 at its middle position, where it
\* holds the value at
StepRows(at) ==
    [k \in 1..PostObs |->
        [t |-> 1000 + (k - 1),
         v |-> IF k - 1 < PostObs \div 2 THEN 50
               ELSE IF k - 1 = PostObs \div 2 THEN at ELSE 70,
         na |-> FALSE]]

\* a weekly series
WeeklyRows ==
    [k \in 1..PostObs |-> [t |-> 1000 + 7 * (k - 1), v |-> 50 + 10 * (k - 1), na |-> FALSE]]

\* a daily series with a week missing after its third observation
GapRows ==
    [k \in 1..PostObs |->
        [t |-> IF k <= 3 THEN 1000 + (k - 1) ELSE 1007 + (k - 1),
         v |-> 50 + 10 * (k - 1),
         na |-> FALSE]]

PostSeries ==
    {StepRows(50), StepRows(70), WeeklyRows, GapRows}

\* the catalog handed to the analyzer
PostEvents ==
    <<[Date |-> 971,  Name |-> "event_a", Category |-> "c1", Expected_Impact |-> "up"],
      [Date |-> 1003, Name |-> "event_b", Category |-> "c2", Expected_Impact |-> "down"],
      [Date |-> 1002, Name |-> "event_c", Category |-> "c1", Expected_Impact |-> "up"],
      [Date |-> 1004, Name |-> "event_d", Category |-> "c2", Expected_Impact |-> "up"],
      [Date |-> 1001, Name |-> "event_e", Category |-> "c1", Expected_Impact |-> "down"],
      [Date |-> 1005, Name |-> "event_f", Category |-> "c2", Expected_Impact |-> "down"],
      [Date |-> 1065, Name |-> "event_g", Category |-> "c1", Expected_Impact |-> "up"]>>

\* the same catalog under the columns of the events table of utils
PostEventsDf ==
    [k \in 1..Len(PostEvents) |->
        [event_id |-> k,
         date |-> PostEvents[k].Date,
         event_name |-> PostEvents[k].Name,
         category |-> PostEvents[k].Category,
         expected_impact |-> PostEvents[k].Expected_Impact]]

\* the table get_change_points returns on a model of rows fitted with one
\* chain of one draw, whose sample is tau
ChangePointsDf(rows, tau) ==
    LET obj == ModelOn(rows, Len(tau))
        built == [kind |-> "changepoint_model",
                  n_changepoints |-> obj.max_changepoints,
                  observed |-> "data",
                  n_obs |-> obj.n_obs]
    IN  ChangePointRows(PmSample(built, <<<<tau>>>>, 0), obj.max_changepoints,
                        obj.dates, CredibleDen - 1)

PostTolerances == {29, 30}

PostWindows == {3, 7}

InitPost ==
    \/ \E rows \in PostSeries, events_data \in {None, PostEvents} :
            Analyzer_init(rows, events_data)
    \/ \E rows \in PostSeries, n \in 1..MaxChangepoints :
            \E tau \in RawDraws(n, PostObs) :
                Utils_init(rows, ChangePointsDf(rows, tau), PostEventsDf)

NextPost ==
    \/ \E n_changepoints \in 1..MaxChangepoints :
            /\ build_multiple_changepoint_model(n_changepoints, "prices")
            /\ UNCHANGED appVars
    \/ /\ model # None => fits < MaxFits
       /\ fit_model(1, 0, 1)
       /\ UNCHANGED appVars
    \/ \E tolerance_days \in PostTolerances :
            associate_with_events(tolerance_days) /\ UNCHANGED appVars
    \/ \E window_days \in PostWindows :
            quantify_impact(window_days) /\ UNCHANGED appVars
    \/ \E tolerance_days \in PostTolerances :
            associate_events_with_changepoints(tolerance_days) /\ UNCHANGED appVars
    \/ /\ IsUtils
       /\ \E k \in DOMAIN self.changepoints_df, pre_window, post_window \in PostWindows :
            /\ calculate_price_impact(self.changepoints_df[k].mean_date,
                                      pre_window, post_window)
            /\ UNCHANGED appVars

SpecPost == InitPost /\ [][NextPost]_vars

(***************************************************************************)
(* Properties of the association and of the impact.                        *)
(***************************************************************************)
\* the call that returned last, when it did its work rather than return
\* early
Associated ==
    /\ ret.op = "associate_with_events"
    /\ change_points # None
    /\ self.events_data # None

UtilsAssociated == ret.op = "associate_events_with_changepoints"

\* the positions of a table of dates that lie in lo..hi
DatedWithin(dates, lo, hi) == {j \in DOMAIN dates : lo <= dates[j] /\ dates[j] <= hi}

\* C12: an event is associated with a change point exactly when it lies at
\* most tolerance_days days from it, on either side and the bound included
\* (an event 30 days before the change point is in with tolerance 30 and out
\* with 29).  The analyzer counts exactly these events in n_nearby_events and
\* retains none but these; analysis_utils lists exactly these.
C12_ToleranceInclusive ==
    /\ Associated =>
         \A k \in DOMAIN results["event_associations"] :
            LET assoc == results["event_associations"][k]
                d == change_points.items[k].date_estimate
                tol == ret.args.tolerance_days
                dates == [j \in DOMAIN self.events_data |-> self.events_data[j].Date]
                within == DatedWithin(dates, d - tol, d + tol)
            IN  /\ assoc.n_nearby_events = Cardinality(within)
                /\ \A m \in DOMAIN assoc.associated_events.items :
                      \E j \in within :
                         /\ assoc.associated_events.items[m].event_name
                                = self.events_data[j].Name
                         /\ assoc.associated_events.items[m].event_date = dates[j]
    /\ UtilsAssociated =>
         \A k \in DOMAIN ret.value.rows :
            LET row == ret.value.rows[k]
                d == self.changepoints_df[k].mean_date
                tol == ret.args.tolerance_days
                dates == [j \in DOMAIN self.events_df |-> self.events_df[j].date]
                within == DatedWithin(dates, d - tol, d + tol)
            IN  \A j \in DOMAIN self.events_df :
                   (\E m \in DOMAIN row.all_nearby_events.items :
                        row.all_nearby_events.items[m].event_id
                            = self.events_df[j].event_id)
                       <=> j \in within

\* an event exactly 30 days before a change point is retained with
\* tolerance 30
C12_Witness ==
    /\ Associated
    /\ ret.args.tolerance_days = 30
    /\ \E k \in DOMAIN results["event_associations"] :
          \E m \in DOMAIN results["event_associations"][k].associated_events.items :
             results["event_associations"][k].associated_events.items[m].event_date
                 = change_points.items[k].date_estimate - 30

\* C13: the days_difference reported with an associated event is the signed
\* difference, in whole days, of the event date minus the change point date:
\* negative for an event before the change point, positive for one after.
C13_SignedDaysDifference ==
    /\ Associated =>
         \A k \in DOMAIN results["event_associations"] :
            LET assoc == results["event_associations"][k]
            IN  \A m \in DOMAIN assoc.associated_events.items :
                   assoc.associated_events.items[m].days_difference
                       = assoc.associated_events.items[m].event_date
                             - assoc.changepoint_date
    /\ UtilsAssociated =>
         \A k \in DOMAIN ret.value.rows :
            LET row == ret.value.rows[k]
            IN  \A m \in DOMAIN row.all_nearby_events.items :
                   row.all_nearby_events.items[m].days_difference
                       = row.all_nearby_events.items[m].event_date
                             - row.changepoint_date

\* the retained list is the in-tolerance events, closest first, cut to 3
ClosestThree(items, dates, within, d) ==
    /\ Len(items) <= 3
    /\ Len(items) = IF Cardinality(within) < 3 THEN Cardinality(within) ELSE 3
    /\ \A m \in 1..(Len(items) - 1) :
          Abs(items[m].event_date - d) <= Abs(items[m + 1].event_date - d)
    /\ \A m \in DOMAIN items : \E j \in within : dates[j] = items[m].event_date
    /\ \A j \in within :
          \/ \E m \in DOMAIN items : items[m].event_date = dates[j]
          \/ \A m \in DOMAIN items :
                Abs(dates[j] - d) >= Abs(items[m].event_date - d)

\* C14: the association retained for a change point is the in-tolerance
\* events sorted ascending by absolute day difference and cut to the first
\* 3: at most 3 entries, no left-out in-tolerance event strictly closer than
\* a retained one, the first entry the closest.
C14_ClosestThreeRetained ==
    /\ Associated =>
         \A k \in DOMAIN results["event_associations"] :
            LET assoc == results["event_associations"][k]
                d == change_points.items[k].date_estimate
                tol == ret.args.tolerance_days
                dates == [j \in DOMAIN self.events_data |-> self.events_data[j].Date]
            IN  ClosestThree(assoc.associated_events.items, dates,
                             DatedWithin(dates, d - tol, d + tol), d)
    /\ UtilsAssociated =>
         \A k \in DOMAIN ret.value.rows :
            LET row == ret.value.rows[k]
                d == self.changepoints_df[k].mean_date
                tol == ret.args.tolerance_days
                dates == [j \in DOMAIN self.events_df |-> self.events_df[j].date]
            IN  ClosestThree(row.all_nearby_events.items, dates,
                             DatedWithin(dates, d - tol, d + tol), d)

\* C15: an association yields exactly one record per change point, in the
\* order of the change points; when no event lies within tolerance the
\* record's event list is the empty list, not None, and its event count is 0.
C15_OneRecordPerChangePoint ==
    /\ Associated =>
         /\ Len(results["event_associations"]) = Len(change_points.items)
         /\ Len(ret.value.rows) = Len(change_points.items)
         /\ \A k \in DOMAIN results["event_associations"] :
               LET assoc == results["event_associations"][k]
                   d == change_points.items[k].date_estimate
                   tol == ret.args.tolerance_days
                   dates == [j \in DOMAIN self.events_data |->
                                self.events_data[j].Date]
               IN  /\ assoc.changepoint_id = k
                   /\ assoc.changepoint_date = d
                   /\ ret.value.rows[k].change_point = k
                   /\ assoc.associated_events.type = "list"
                   /\ DatedWithin(dates, d - tol, d + tol) = {} =>
                         /\ assoc.associated_events = List(<<>>)
                         /\ assoc.n_nearby_events = 0
    /\ UtilsAssociated =>
         /\ Len(ret.value.rows) = Len(self.changepoints_df)
         /\ \A k \in DOMAIN ret.value.rows :
               LET row == ret.value.rows[k]
                   d == self.changepoints_df[k].mean_date
                   tol == ret.args.tolerance_days
                   dates == [j \in DOMAIN self.events_df |-> self.events_df[j].date]
               IN  /\ row.changepoint_id = self.changepoints_df[k].changepoint_id
                   /\ row.changepoint_date = d
                   /\ row.all_nearby_events.type = "list"
                   /\ DatedWithin(dates, d - tol, d + tol) = {} =>
                         /\ row.all_nearby_events = List(<<>>)
                         /\ row.associated_events = 0

\* two change points were associated, the first with nearby events and the
\* second with none
C15_Witness ==
    /\ Associated
    /\ Len(results["event_associations"]) = 2
    /\ results["event_associations"][1].n_nearby_events > 0
    /\ results["event_associations"][2].n_nearby_events = 0
    /\ results["event_associations"][2].associated_events = List(<<>>)

\* the impact call that returned last, when it did its work
Quantified == ret.op = "quantify_impact" /\ change_points # None

PriceImpacted == ret.op = "calculate_price_impact"

\* the positions of the observations dated from lo to hi, d left out
Observed(data, lo, hi, d) ==
    {i \in DOMAIN data.index :
        lo <= data.index[i] /\ data.index[i] <= hi /\ data.index[i] # d}

\* a mean is the mean of the observations at the positions
MeanOver(mean, data, positions) ==
    /\ mean.count = Cardinality(positions)
    /\ mean.sum = SumOver(data, positions)

\* C16: for a change point or event dated d and a window of w days the
\* before window holds exactly the observations t with d - w <= t < d and the
\* after window exactly those with d < t <= d + w; the observation dated d is
\* in neither.  Stated of the means and counts quantify_impact and
\* calculate_price_impact report.
C16_HalfOpenWindows ==
    /\ Quantified =>
         \A k \in DOMAIN ret.value.items :
            LET impact == ret.value.items[k]
                d == impact.changepoint_date
                w == ret.args.window_days
            IN  /\ MeanOver(impact.mean_price_before, self.data,
                            Observed(self.data, d - w, d, d))
                /\ MeanOver(impact.mean_price_after, self.data,
                            Observed(self.data, d, d + w, d))
                /\ impact.n_obs_before = impact.mean_price_before.count
                /\ impact.n_obs_after = impact.mean_price_after.count
    /\ (PriceImpacted /\ "error" \notin DOMAIN ret.value) =>
         LET d == ret.args.event_date
         IN  /\ MeanOver(ret.value.pre_mean, self.data,
                         Observed(self.data, d - ret.args.pre_window, d, d))
             /\ MeanOver(ret.value.post_mean, self.data,
                         Observed(self.data, d, d + ret.args.post_window, d))

\* C17: the impact of K change points is a record for every one of them,
\* each under its own id; a change point with an empty window gets an
\* explicit insufficient-data marker, and calculate_price_impact returns the
\* marker exactly when its pre_data or its post_data is empty.
C17_RecordPerChangePoint ==
    /\ Quantified =>
         /\ Len(ret.value.items) = Len(change_points.items)
         /\ \A k \in DOMAIN ret.value.items :
               /\ ret.value.items[k].changepoint_id = k
               /\ ret.value.items[k].changepoint_date = change_points.items[k].date_estimate
    /\ PriceImpacted =>
         LET d == ret.args.event_date
         IN  ("error" \in DOMAIN ret.value)
                <=> \/ PreData(self.data, d, ret.args.pre_window) = {}
                    \/ PostData(self.data, d, ret.args.post_window) = {}

\* every observation at the positions holds the price
AllAt(data, positions, price) == \A i \in positions : data.values[i] = price

\* percent is 100 * (after - before) / before, the means and the percentage
\* being fractions
PercentOf(percent, before, after) ==
    /\ before.count > 0 /\ after.count > 0 /\ before.sum # 0
    /\ percent.den # 0
    /\ percent.num * (after.count * before.sum)
           = 100 * (after.sum * before.count - before.sum * after.count) * percent.den

\* C18: the percent change of an impact is (after mean - before mean) /
\* before mean * 100.  On observations of 50 in the before window and of 70
\* in the after window the means are 50 and 70 and the percent change is 40;
\* for calculate_price_impact the windows are its pre_data and post_data.
C18_PercentChangeOfMeans ==
    /\ Quantified =>
         \A k \in DOMAIN ret.value.items :
            LET impact == ret.value.items[k]
                d == impact.changepoint_date
                w == ret.args.window_days
            IN  /\ PercentOf(impact.percent_change, impact.mean_price_before,
                             impact.mean_price_after)
                /\ (/\ AllAt(self.data, Observed(self.data, d - w, d, d), 50)
                    /\ AllAt(self.data, Observed(self.data, d, d + w, d), 70)) =>
                       /\ impact.mean_price_before.sum
                              = 50 * impact.mean_price_before.count
                       /\ impact.mean_price_after.sum
                              = 70 * impact.mean_price_after.count
                       /\ impact.percent_change.num = 40 * impact.percent_change.den
    /\ (PriceImpacted /\ "error" \notin DOMAIN ret.value) =>
         LET d == ret.args.event_date
             impact == ret.value
         IN  /\ PercentOf(impact.avg_impact_pct, impact.pre_mean, impact.post_mean)
             /\ (/\ AllAt(self.data, PreData(self.data, d, ret.args.pre_window), 50)
                 /\ AllAt(self.data, PostData(self.data, d, ret.args.post_window), 70)) =>
                    /\ impact.pre_mean.sum = 50 * impact.pre_mean.count
                    /\ impact.post_mean.sum = 70 * impact.post_mean.count
                    /\ impact.avg_impact_pct.num = 40 * impact.avg_impact_pct.den

\* the impact of a change point at the step of a daily series, 50 on the 3
\* days before and at the change point, 70 on the 3 days after: 40 percent
C18_Witness ==
    /\ Quantified
    /\ ret.args.window_days = 3
    /\ \E k \in DOMAIN ret.value.items :
          LET impact == ret.value.items[k]
          IN  /\ impact.mean_price_before = [sum |-> 150, count |-> 3]
              /\ impact.mean_price_after = [sum |-> 210, count |-> 3]
              /\ impact.percent_change.num = 40 * impact.percent_change.den
              /\ \E i \in DOMAIN self.data.index :
                    /\ self.data.index[i] = impact.changepoint_date
                    /\ self.data.values[i] = 50

(***************************************************************************)
(* The preparation of a series: an object of either class over a drawn raw *)
(* series, whose timestamps may repeat or go backwards and whose values    *)
(* may be missing, and the calls up to the building of a model.            *)
(***************************************************************************)
\* rows of a raw series
MaxRaw == 3

PrepDates == 1000..(1000 + MaxRaw - 1)

\* the raw series: row k holds the price 50 + 10 * (k - 1), or is missing
RawSeries ==
    UNION {{[k \in 1..n |-> [t |-> ts[k], v |-> 50 + 10 * (k - 1), na |-> nas[k]]] :
                ts \in [1..n -> PrepDates], nas \in [1..n -> BOOLEAN]} :
           n \in 0..MaxRaw}

InitPrep ==
    \/ \E rows \in RawSeries : Analyzer_init(rows, None)
    \/ Analyzer_init_raises
    \/ \E rows \in RawSeries, max_changepoints \in 1..MaxChangepoints :
            Model_init(rows, max_changepoints)

\* the builders are called on series that leave a change point a place:
\* the support of tau is not empty
NextPrep ==
    \/ \E use_log_returns \in BOOLEAN :
            prepare_data(use_log_returns) /\ UNCHANGED appVars
    \/ \E target_series \in TargetSeries :
            /\ IsAnalyzer
            /\ TauSupport(IndexLen(SelectTarget(target_series, log_returns,
                                                self.data).dates)) # {}
            /\ build_single_changepoint_model(target_series)
            /\ UNCHANGED appVars
    \/ \E n_changepoints \in 1..MaxChangepoints, target_series \in TargetSeries :
            /\ IsAnalyzer
            /\ TauSupport(IndexLen(SelectTarget(target_series, log_returns,
                                                self.data).dates)) # {}
            /\ build_multiple_changepoint_model(n_changepoints, target_series)
            /\ UNCHANGED appVars
    \/ /\ IsModel
       /\ TauSupport(self.n_obs) # {}
       /\ build_model
       /\ UNCHANGED appVars

SpecPrep == InitPrep /\ [][NextPrep]_vars

StrictlyIncreasing(idx) ==
    \A i, j \in DOMAIN idx : i < j => idx[i] < idx[j]

\* C19: a series whose index is not strictly increasing, or holds a
\* timestamp twice, is rejected when the object is constructed or the data
\* prepared: no model is ever built on such a series.
C19_ModelOnlyOnIncreasingIndex ==
    model # None => StrictlyIncreasing(self.data.index)

\* C20: the series kept by the constructor is the rows of the input that
\* hold a value, in their order; prepare_data(use_log_returns=True) on its N
\* values gives N - 1 log returns, element j being
\* log(value[j+1]) - log(value[j]) under the timestamp of value[j+1].
C20_LogReturnsOfLaterTimestamp ==
    /\ (IsAnalyzer /\ ret.op = "__init__") =>
         LET input == ret.args.data
             kept == {k \in DOMAIN input : ~input[k].na}
         IN  /\ IndexLen(self.data.index) = Cardinality(kept)
             /\ \A k \in kept :
                   LET j == Cardinality({m \in kept : m < k})
                   IN  /\ self.data.index[j] = input[k].t
                       /\ self.data.values[j] = input[k].v
    /\ (IsAnalyzer /\ log_returns # None) =>
         LET N == IndexLen(self.data.index)
         IN  /\ IndexLen(log_returns.index) = IF N = 0 THEN 0 ELSE N - 1
             /\ DOMAIN log_returns.values = DOMAIN log_returns.index
             /\ \A j \in DOMAIN log_returns.index :
                   /\ log_returns.values[j]
                          = [log_of |-> self.data.values[j + 1],
                             minus_log_of |-> self.data.values[j]]
                   /\ log_returns.index[j] = self.data.index[j + 1]

\* the log return of the third price over the first, the second being
\* missing, under the third timestamp
C20_Witness ==
    /\ IsAnalyzer
    /\ ret.op = "prepare_data"
    /\ log_returns # None
    /\ IndexLen(log_returns.index) = 1
    /\ log_returns.values[0] = [log_of |-> 70, minus_log_of |-> 50]
    /\ log_returns.index[0] = self.data.index[1]

(***************************************************************************)
(* Properties of the builders.                                             *)
(***************************************************************************)
Builders ==
    {"build_single_changepoint_model", "build_multiple_changepoint_model", "build_model"}

\* C21: a builder called for K change points on a series of N observations
\* with K > N / 3 issues a warning and still builds and returns the model;
\* it never fails on that ground.
C21_WarnsAndBuilds ==
    (ret.op \in Builders /\ 3 * model.n_changepoints > model.n_obs) =>
        /\ ret.raised = "None"
        /\ ret.value = model
        /\ ret.warnings # <<>>

(***************************************************************************)
(* The diagnostics of a posterior large enough for R-hat: the single       *)
(* change point model fitted with RHatMinChains chains of RHatMinDraws     *)
(* draws.                                                                  *)
(***************************************************************************)
InitDiag == Analyzer_init(DataRows, None)

NextDiag ==
    \/ build_single_changepoint_model("prices") /\ UNCHANGED appVars
    \/ /\ model # None => fits < MaxFits
       /\ fit_model(RHatMinDraws, 0, RHatMinChains)
       /\ UNCHANGED appVars

SpecDiag == InitDiag /\ [][NextDiag]_vars

\* C22: diagnostics['converged'] is true exactly when
\* diagnostics['r_hat_max'] < 1.1, whatever the R-hat values of the
\* parameters, the undefined ones included.
C22_ConvergedIffMaxBelow ==
    (IsAnalyzer /\ ret.op = "fit_model" /\ ret.raised = "None") =>
        (results["diagnostics"].converged
            <=> LessThan(results["diagnostics"].r_hat_max, ConvergedBelow))

(***************************************************************************)
(* Properties of the analyzer's state across its calls.                    *)
(***************************************************************************)
\* the entry of results an operation writes
OwnEntry(op) ==
    IF op = "associate_with_events" THEN "event_associations" ELSE "impact_analysis"

\* C24: associate_with_events and quantify_impact leave the price series,
\* the event catalog, the log returns, the model, the trace and
\* change_points as they were and write no entry of results but their own;
\* change_points, once computed, is changed by no call other than fit_model.
C24_OutputsAreFrozen ==
    [][ /\ ret'.op \in {"associate_with_events", "quantify_impact"} =>
             /\ self' = self
             /\ log_returns' = log_returns
             /\ model' = model
             /\ trace' = trace
             /\ change_points' = change_points
             /\ DOMAIN results \subseteq DOMAIN results'
             /\ DOMAIN results' \subseteq DOMAIN results \cup {OwnEntry(ret'.op)}
             /\ \A key \in DOMAIN results :
                   key # OwnEntry(ret'.op) => results'[key] = results[key]
        /\ (change_points # None /\ change_points' # change_points) =>
             ret'.op = "fit_model"
      ]_vars

\* after a fit both operations have written their entry, next to the
\* entries of the build and of the fit
C24_Witness ==
    /\ IsAnalyzer
    /\ ret.op = "associate_with_events"
    /\ change_points # None
    /\ {"impact_analysis", "event_associations", "diagnostics", "model_type"}
          \subseteq DOMAIN results

(***************************************************************************)
(* Properties of the regime assignment of the two builders.                *)
(***************************************************************************)
\* C25: on every ascending tau vector with entries in [1, N-2] the regime
\* BayesianChangePointModel.build_model computes by its successive switches
\* equals the regime build_multiple_changepoint_model computes, the count of
\* the change points with tau_k < i.
C25_SwitchesEqualCount ==
    (deterministics # None /\ model.kind = "changepoint_model") =>
        /\ deterministics.regime
              = RegimeMultiple(deterministics.tau_sorted, model.n_changepoints,
                               model.n_obs)
        /\ \A i \in 0..(model.n_obs - 1) :
              deterministics.regime[i] = CountBefore(deterministics.tau_sorted, i)

\* C28: for every tau vector with entries in [1, N-2], equal entries
\* included, the regime assignment of either builder is non-decreasing in
\* the observation index, observation 0 is in regime 0 and observation N-1
\* in regime K.
C28_RegimeMonotoneFromZeroToK ==
    (deterministics # None /\ model.kind # "single_changepoint") =>
        /\ deterministics.regime[0] = 0
        /\ deterministics.regime[model.n_obs - 1] = model.n_changepoints
        /\ \A i \in 0..(model.n_obs - 2) :
              deterministics.regime[i] <= deterministics.regime[i + 1]

\* two change points at the same index of BayesianChangePointModel: the
\* regime steps from 0 to 2 there
C28_Witness ==
    /\ deterministics # None
    /\ model.kind = "changepoint_model"
    /\ model.n_changepoints = 2
    /\ point[1] = point[2]
    /\ deterministics.regime[point[1] - 1] = 0
    /\ deterministics.regime[point[1]] = 2

\* C26: whenever change_points is set it was extracted from a trace sampled
\* from the current model, and results['model_type'],
\* results['n_changepoints'] and results['dates'] describe that model, also
\* after a build that follows a fit.
C26_ChangePointsOfCurrentModel ==
    (IsAnalyzer /\ change_points # None) =>
        /\ trace # None
        /\ trace.observed_data = [y |-> model.observed, n_obs |-> model.n_obs]
        /\ Len(change_points.items) = model.n_changepoints
        /\ ("tau_raw" \in DOMAIN trace.posterior)
              <=> model.kind = "multiple_changepoint"
        /\ results["model_type"] = model.kind
        /\ model.kind = "multiple_changepoint" =>
              results["n_changepoints"] = model.n_changepoints
        /\ IndexLen(results["dates"]) = model.n_obs
        /\ change_points = List(ExtractChangePoints(trace, results))

\* C27: the estimates of the multiple change point model are ordered like
\* their ordinals: for j < k the median, the mean and the date estimate of
\* change point j are at most those of change point k.
C27_EstimatesOrdered ==
    (IsAnalyzer /\ change_points # None) =>
        \A j, k \in DOMAIN change_points.items :
            j < k =>
                /\ change_points.items[j].tau_median_x2 <= change_points.items[k].tau_median_x2
                /\ change_points.items[j].tau_mean.sum * change_points.items[k].tau_mean.count
                      <= change_points.items[k].tau_mean.sum * change_points.items[j].tau_mean.count
                /\ change_points.items[j].date_estimate <= change_points.items[k].date_estimate

\* two change points estimated from a posterior whose first draw came out
\* of order, the first estimate strictly before the second
C27_Witness ==
    /\ IsAnalyzer
    /\ change_points # None
    /\ Len(change_points.items) = 2
    /\ "tau_raw" \in DOMAIN trace.posterior
    /\ trace.posterior.tau_raw[1][1][1] > trace.posterior.tau_raw[1][1][2]
    /\ change_points.items[1].tau_median_x2 < change_points.items[2].tau_median_x2
    /\ change_points.items[1].date_estimate < change_points.items[2].date_estimate

\* C29: after a build, results['target_series'] names the series the model
\* was built on: it is 'returns' only if the log returns supplied the
\* observations and the dates, also when the build comes before prepare_data
\* or after prepare_data(use_log_returns=False).
C29_TargetSeriesIsTheSeriesBuiltOn ==
    (IsAnalyzer /\ ret.op \in Builders) =>
        /\ results["target_series"] = "returns" =>
              /\ model.observed = "log_returns"
              /\ log_returns # None
              /\ results["dates"] = log_returns.index
        /\ results["target_series"] = "prices" =>
              /\ model.observed = "data"
              /\ results["dates"] = self.data.index

(***************************************************************************)
(* analyze_regime_characteristics of utils/analysis_utils.py: the price    *)
(* series cut at the sorted change point dates, one row per regime that    *)
(* has observations.  The standard deviation, the skewness, the kurtosis   *)
(* and the trend regression of a row are not kept.                         *)
(***************************************************************************)
MaxRegimeCuts == 2

\* the change point dates handed over: before, inside, between and after
\* the timestamps of the series
RegimeDates == {995, 1000, 1003, 1006, 1030, 1060}

RegimeCuts ==
    UNION {[1..n -> RegimeDates] : n \in 0..MaxRegimeCuts}

\* data[(data.index >= start_date) & (data.index < end_date)]
RegimeData(data, start_date, end_date) ==
    {i \in DOMAIN data.index :
        data.index[i] >= start_date /\ data.index[i] < end_date}

\* boundaries = [data.index.min()] + changepoints_sorted + [data.index.max()]
RegimeBoundaries(data, changepoints) ==
    <<IndexMin(data.index)>> \o Sort(changepoints) \o <<IndexMax(data.index)>>

RegimeStats(data, boundaries, i) ==
    LET start_date  == boundaries[i + 1]
        end_date    == boundaries[i + 2]
        regime_data == RegimeData(data, start_date, end_date)
        prices      == {data.values[p] : p \in regime_data}
        min_price   == CHOOSE v \in prices : \A w \in prices : v <= w
        max_price   == CHOOSE v \in prices : \A w \in prices : v >= w
    IN  IF regime_data = {} THEN None
        ELSE [regime_id      |-> i + 1,
              start_date     |-> start_date,
              end_date       |-> end_date,
              duration_days  |-> end_date - start_date,
              n_observations |-> Cardinality(regime_data),
              mean_price     |-> [sum   |-> SumOver(data, regime_data),
                                  count |-> Cardinality(regime_data)],
              min_price      |-> min_price,
              max_price      |-> max_price,
              price_range    |-> max_price - min_price]

\* the loop over range(len(boundaries) - 1), skipping the empty regimes
RECURSIVE RegimeRows(_, _, _)
RegimeRows(data, boundaries, i) ==
    IF i >= Len(boundaries) - 1 THEN <<>>
    ELSE LET regime_stats == RegimeStats(data, boundaries, i)
         IN  (IF regime_stats = None THEN <<>> ELSE <<regime_stats>>)
                \o RegimeRows(data, boundaries, i + 1)

analyze_regime_characteristics(changepoints) ==
    /\ IsUtils
    /\ ret' = Returned("analyze_regime_characteristics",
                       [changepoints |-> changepoints],
                       DataFrame(RegimeRows(self.data,
                                            RegimeBoundaries(self.data, changepoints),
                                            0)))
    /\ UNCHANGED <<objectVars, evalVars, pooled>>

InitRegimes ==
    \E rows \in PostSeries : Utils_init(rows, <<>>, PostEventsDf)

NextRegimes ==
    \E changepoints \in RegimeCuts :
        analyze_regime_characteristics(changepoints) /\ UNCHANGED appVars

SpecRegimes == InitRegimes /\ [][NextRegimes]_vars

\* the reported regimes an observation lies in
RegimesOf(regimes, d) ==
    {r \in DOMAIN regimes : d >= regimes[r].start_date /\ d < regimes[r].end_date}

\* C30: analyze_regime_characteristics partitions the series by the sorted
\* change point dates: every observation belongs to exactly one reported
\* regime, so the n_observations of the regimes sum to the length of the
\* series.
C30_RegimesPartitionTheSeries ==
    ret.op = "analyze_regime_characteristics" =>
        LET regimes == ret.value.rows
        IN  /\ \A i \in DOMAIN self.data.index :
                    Cardinality(RegimesOf(regimes, self.data.index[i])) = 1
            /\ SumSeq([r \in DOMAIN regimes |-> regimes[r].n_observations])
                    = IndexLen(self.data.index)

====
